---- MODULE Spec2Model ----
(***************************************************************************)
(* Chaos-engineering simulator: services with instance pools, the chaos   *)
(* experiments that run against them on background threads, and the two   *)
(* admission front ends (ExperimentRunner, ChaosExperimentManager).       *)
(*                                                                         *)
(* One Service ("svc", region "us") is modelled.  The variable `world`    *)
(* fixes which front end drives the experiments of a behaviour:           *)
(*   "service"  only Service.chaos_terminate_random_instance is called    *)
(*   "runner"   chaos/runner.py  + chaos/experiments.py (ChaosExperiment) *)
(*   "manager"  chaos_experiments_core.py (BaseExperiment and its manager)*)
(*   "alerts"   core/monitoring.py: AlertManager under its monitoring loop *)
(*   "instance" core/service.py: one ServiceInstance and the threads that  *)
(*              touch it (requests, health checks, restart, terminations,  *)
(*              a ResourceExhaustionMonkey)                                *)
(*   "monkey"   chaos/chaos_monkey.py: ChaosMonkey over two services       *)
(*                                                                         *)
(* Granularity.  A front-end method that runs under the front end's lock   *)
(* is one action; stop is two (up to the join / the read of status, then   *)
(* the write of CANCELLED).  An experiment's thread is one action per      *)
(* statement of _run_experiment that another thread can observe.           *)
(* join(timeout=10) gives up only while the thread is in the sleep of its  *)
(* loop.  force_experiment is taken as one step.  set_safety_mode is       *)
(* called before the first experiment is created.  `ids` and `menu` fix    *)
(* how many experiments, and of which types, the client asks for.          *)
(* The monkey is set up (configure, register, exclude, callbacks) before   *)
(* its first tick or forced call; each of its methods is one step.         *)
(***************************************************************************)
EXTENDS Integers, FiniteSets, Sequences, TLC

\* ------------------------------------------------------------------ bounds
MaxInst == 4            \* instance ids 1..MaxInst may ever exist in the service
InitialInstances == 2   \* instances of the service in the experiment worlds
MaxMin == 2             \* min_instances is drawn from 0..MaxMin in world "service"
MinInstances == 1       \* min_instances of the service in the experiment worlds
MaxCalls == 5           \* chaos_terminate_random_instance calls in world "service"
DurTicks == 1           \* sleeps of its loop that an experiment's duration lasts
MaxCap == 2              \* max_concurrent_experiments is 1 or MaxCap
MaxChecks == 4          \* check_metric calls made
MaxCallbacks == 1       \* callbacks registered with the AlertManager
MaxRestarts == 1        \* restarts of the instance that leave Terminated
MaxRequests == 1        \* handle_request calls on the instance
MaxRepeats == 1         \* terminate() calls on the instance while it is Terminated
MaxChaosCalls == 2      \* scheduler ticks, force_chaos and simulate_outage calls
MaxTime == 3            \* the time runs from 0 to MaxTime
DisableTicks == 2       \* duration_minutes of disable_temporarily, in time units
MaxDisables == 2        \* disable_temporarily calls
MaxServiceCalls == 3    \* Service.handle_request calls
FailureThreshold == 2   \* CircuitBreakerConfig.failure_threshold
SuccessThreshold == 2   \* CircuitBreakerConfig.success_threshold
TimeoutTicks == 2       \* CircuitBreakerConfig.timeout_seconds, in time units
MaxBreakerCalls == 6    \* CircuitBreaker.call calls
MaxResets == 1          \* CircuitBreaker.reset calls
MaxConcurrentCalls == 2 \* Bulkhead.max_concurrent_calls
MaxBulkheadCalls == 4   \* Bulkhead.execute calls
MaxInstances == 3       \* Service.max_instances in world "scale"
MaxScaleCalls == 2      \* auto-scaling decisions
MaxScans == 2           \* scans a DoctorMonkey makes within its duration
MaxTasks == 2           \* auto-restart tasks that may wait at a time
MaxTerms == 2           \* ServiceInstance.terminate() calls chaos makes on running instances
MaxLoops == 3           \* _chaos_loop threads a ChaosMonkey starts
MaxLoopTicks == 3       \* iterations its loops make in all

\* ------------------------------------------------------- program constants
LatencyMs == 500        \* LatencyMonkey latency_ms default
VarianceMs == 100       \* LatencyMonkey variance_ms default
DefaultProbability == 30        \* ChaosMonkey.termination_probability default, in percent
DefaultMinInstances == 2        \* Service min_instances default
TestServiceInstances == 3       \* instances of the first service registered with the monkey
DatabaseInstances == 2          \* instances of the second

Inst == 1..MaxInst
ExpIds == {"e1", "e2"}
ForceCallers == 1..2      \* threads that call force_experiment
LoopIds == 1..MaxLoops
None == "<None>"            \* Python's None (no string the program builds)

\* ServiceStatus
HEALTHY == "healthy"
DEGRADED == "degraded"
UNHEALTHY == "unhealthy"
TERMINATED == "terminated"
RECOVERING == "recovering"
ServiceStatus == {HEALTHY, DEGRADED, UNHEALTHY, TERMINATED, RECOVERING}

\* ExperimentStatus
PENDING == "pending"
RUNNING == "running"
COMPLETED == "completed"
FAILED == "failed"
CANCELLED == "cancelled"
ExperimentStatus == {PENDING, RUNNING, COMPLETED, FAILED, CANCELLED}
Terminal == {COMPLETED, FAILED, CANCELLED}

\* ExperimentType (both modules' enums, the members the model uses)
NETWORK_LATENCY == "network_latency"
CHAOS_GORILLA == "chaos_gorilla"
CHAOS_KONG == "chaos_kong"
LATENCY == "latency"
TERMINATION == "termination"

VARIABLES
    world,
    ids,                \* experiment ids the front end may hand out
    menu,               \* experiment types its client asks for
    \* Service "svc"
    members,            \* keys of Service.instances
    istatus,            \* instance id -> ServiceInstance.status
    ibase,              \* instance id -> ServiceInstance.base_response_time
    min_instances,      \* Service.min_instances
    calls,              \* chaos_terminate_random_instance calls made (world "service")
    succ,               \* ... of which returned an instance id
    n0,                 \* healthy count in the initial state
    last_return,        \* the instance id chaos_terminate_random_instance last returned, 0 for None
    \* ExperimentRunner / ChaosExperimentManager
    safety_checks_enabled,
    dry_run_mode,
    require_confirmation,
    max_concurrent_experiments,
    active_experiments, \* keys of active_experiments
    created,            \* experiment ids handed out so far
    history,            \* experiment id -> status recorded by _monitor_experiment, or None
    lockpc,             \* what the holder of the front end's lock is doing
    lockid,             \* ... and on which experiment
    api,                \* the last front-end call and what it returned (str() of it)
    \* experiments
    cfg,                \* experiment id -> its constructor arguments
    status,
    should_stop,
    pc,                 \* position of the experiment's thread in _run_experiment
    ticks,              \* loop iterations of execute() done
    error_message,
    original,           \* LatencyMonkey.original_latencies / execute()'s local map
    killed,             \* ChaosGorilla/ChaosKong.terminated_instances
    exec_count,         \* times execute() was entered
    raised,             \* execute() left by an exception
    cleanup_count,      \* times cleanup() was entered
    pre_base,           \* ibase when start() made the experiment Running
    \* AlertManager
    alerts,             \* alert id -> "absent" (no key), "open" or "resolved" (Alert.resolved)
    alert_callbacks,    \* number of callbacks in alert_callbacks
    alert_objects,      \* alert id -> Alert objects constructed for it
    notified,           \* alert id -> callback invocations made for it
    check_calls,        \* check_metric calls made
    trail,              \* alert id -> should_alert of the check_metric calls on it, oldest first
    \* one ServiceInstance and the threads that touch it
    si,                 \* its fields
    repeat_calls,       \* terminate() calls made on it while it was Terminated
    si_pc,              \* thread -> position: handle_request, health_check, restart,
                        \* ResourceExhaustionMonkey's _run_experiment
    requests,           \* handle_request calls made
    response,           \* how the last handle_request ended
    metric_updates,     \* _update_metrics calls made
    exhaustion_level,   \* ResourceExhaustionMonkey.exhaustion_level, in percent
    affected_instances, \* ResourceExhaustionMonkey.affected_instances
    rx_ticks,           \* iterations of its loop done
    \* ChaosMonkey and the services registered with it
    fleet,              \* service name -> instance id -> status
    fleet_min,          \* service name -> Service.min_instances
    is_enabled,
    monkey_targets,     \* keys of ChaosMonkey.target_services
    excluded_services,
    min_healthy_instances,
    termination_probability,    \* in percent
    successful_terminations,
    blocked_terminations,
    total_terminations,         \* incremented by _record_termination
    termination_history,        \* <<service name, instance id>> records, oldest first
    termination_callbacks,      \* number of callbacks in termination_callbacks
    callback_log,               \* <<callback, service name, instance id>> invocations, oldest first
    chaos_calls,        \* scheduler ticks, force_chaos and simulate_outage calls made
    monkey_op,          \* the last of them: its name, the service it chose, what it returned
    \* ChaosMonkey.disable_temporarily
    now,                \* the time, in units of one sleep of a re-enable thread's length / DisableTicks
    timers,             \* the sleeping re_enable threads: when each wakes, and its was_enabled
    reincludes,         \* sleeping re_include threads: when each wakes, and for which service
    window_end,         \* when the duration of the last disable_temporarily call has elapsed
    disable_calls,      \* disable_temporarily calls made
    \* ChaosEngineeringSystem
    sys_pc,             \* the statement stop() / emergency_stop() is at
    stop_op,            \* the runner's stop_all_experiments / emergency_stop in progress, or ""
    stop_queue,         \* the experiments its loop has still to visit
    stop_snapshot,      \* history: the experiments such a loop found in active_experiments
    monkey_running,     \* ChaosMonkey.is_running
    monitoring_running, \* MonitoringSystem.is_running
    \* two threads in Service.chaos_terminate_random_instance
    chaos_pc,           \* per thread: "idle", or "chosen" once the minimum check has passed
    chaos_seen,         \* per thread: the healthy_instances list it read
    \* two threads in Service.handle_request
    svc_req,            \* per thread: outcome of the call in progress, the "+= 1" it is at, the value it loaded
    request_count,      \* Service.request_count
    successful_requests, \* Service.successful_requests
    error_count,        \* Service.error_count
    service_calls,      \* history: handle_request calls made
    \* ExperimentRunner._monitor_experiment
    fired,              \* per experiment: the on_complete / on_fail / on_cancel events notified
    successful_experiments, \* ExperimentRunner.successful_experiments
    failed_experiments, \* ExperimentRunner.failed_experiments
    \* concurrent callers of ChaosExperimentManager.create_and_run_experiment
    create_req,         \* caller -> where its call stands and what it asked for
    \* CircuitBreaker
    breaker_state,      \* CircuitBreaker.state
    failure_count,
    success_count,
    last_failure_time,  \* NoTime for None
    blocked_requests,
    breaker_pc,         \* "func" while call() runs the wrapped function under the lock
    breaker_op,         \* the last call() or reset(): its name, its outcome, was func invoked
    breaker_calls,      \* history: call() calls made
    breaker_resets,     \* history: reset() calls made
    fail_streak,        \* history: failures of func since its last success or the last reset
    succ_streak,        \* history: successes of func since the breaker last half-opened
    \* Bulkhead
    semaphore,          \* permits left in Bulkhead.semaphore
    current_calls,
    total_calls,
    rejected_calls,
    successful_calls,
    failed_calls,
    bulkhead_pc,        \* caller -> where its execute() stands
    bulkhead_op,        \* the last execute() that was admitted or rejected
    \* Service auto-scaling
    max_instances,      \* Service.max_instances
    scale_calls,        \* history: _auto_scale_if_needed calls made
    \* DoctorMonkey
    doctor_pc,          \* where the experiment's thread stands
    doctor_queue,       \* instances the current scan has still to evaluate
    scan_count,
    doctor_before,      \* history: the fleet when the experiment started
    \* Service: health-check loop and auto-restart tasks
    svc_lock,           \* instance whose auto-restart task holds Service.lock, 0 if free
    restart_tasks,      \* instance id -> _auto_restart_instance threads asleep for it
    shut_down,          \* Service.shutdown() has returned
    restart_count,      \* history: instance id -> restarts the tasks performed
    term_count,         \* history: instance id -> terminations of the running instance
    noop_tasks,         \* history: instances for which a task found nothing to do
    \* ExperimentRunner.force_experiment, called by two threads
    force_pc,           \* caller -> where it stands in force_experiment
    force_old,          \* caller -> its locals old_safety, old_confirmation
    force_id,           \* caller -> its argument experiment_id
    \* ChaosMonkey.start / stop / _chaos_loop
    loop_pc,            \* _chaos_loop thread -> where it stands
    chaos_thread,       \* ChaosMonkey.chaos_thread, 0 for None
    stopper_pc,         \* where the client stands in stop()
    ticking             \* history: the loops that made an iteration since the last start()

svcVars == <<members, istatus, ibase, min_instances>>
callVars == <<calls, succ, n0, last_return>>
flagVars == <<safety_checks_enabled, dry_run_mode, require_confirmation,
              max_concurrent_experiments>>
regVars == <<active_experiments, created, history, lockpc, lockid>>
frontVars == <<flagVars, regVars, api>>
expVars == <<cfg, status, should_stop, pc, ticks, error_message, original, killed,
             exec_count, raised, cleanup_count, pre_base>>
alertVars == <<alerts, alert_callbacks, alert_objects, notified, check_calls, trail>>
instVars == <<si, repeat_calls, si_pc, requests, response, metric_updates, exhaustion_level,
              affected_instances, rx_ticks>>
monkeyCfg == <<is_enabled, monkey_targets, excluded_services, min_healthy_instances,
               termination_probability, termination_callbacks>>
monkeyLog == <<fleet, successful_terminations, blocked_terminations, total_terminations,
               termination_history,
               callback_log, chaos_calls, monkey_op>>
monkeyVars == <<fleet_min, monkeyCfg, monkeyLog>>
sysVars == <<sys_pc, stop_op, stop_queue, stop_snapshot, monkey_running, monitoring_running>>
pauseVars == <<now, timers, window_end, disable_calls, reincludes>>
trafficVars == <<svc_req, request_count, successful_requests, error_count, service_calls>>
meterVars == <<fired, successful_experiments, failed_experiments>>
lateVars == <<chaos_pc, chaos_seen, trafficVars, meterVars, create_req>>
restVars == <<pauseVars, sysVars, lateVars>>
auxVars == <<alertVars, instVars, monkeyVars, restVars>>
oldVars == <<svcVars, callVars, frontVars, expVars>>
breakerVars == <<breaker_state, failure_count, success_count, last_failure_time,
                 blocked_requests, breaker_pc, breaker_op, breaker_calls, breaker_resets,
                 fail_streak, succ_streak>>
bulkVars == <<semaphore, current_calls, total_calls, rejected_calls, successful_calls,
              failed_calls, bulkhead_pc, bulkhead_op>>
scaleVars == <<max_instances, scale_calls>>
doctorVars == <<doctor_pc, doctor_queue, scan_count, doctor_before>>
healthVars == <<svc_lock, restart_tasks, shut_down, restart_count, term_count,
                noop_tasks>>
forceVars == <<force_pc, force_old, force_id>>
loopVars == <<loop_pc, chaos_thread, stopper_pc, ticking>>
lastVars == <<healthVars, forceVars, loopVars>>
moreVars == <<breakerVars, bulkVars, scaleVars, doctorVars, lastVars>>
vars == <<world, ids, menu, moreVars, svcVars, callVars, frontVars, expVars, auxVars>>

\* ----------------------------------------------------------------- Service
\* ServiceInstance.__init__: base_response_time = random.uniform(50, 200); the
\* model gives instance i the draw 50 + 10*i.
NewBase(i) == 50 + 10 * i

get_healthy_instances ==
    {i \in members : istatus[i] \in {HEALTHY, DEGRADED}}

HealthyCount == Cardinality(get_healthy_instances)

\* ServiceInstance.terminate on instance i
terminate(st, i) == [st EXCEPT ![i] = TERMINATED]

\* variant: the guard one off
chaos_terminate_guard_mut == HealthyCount < min_instances

chaos_terminate_guard == HealthyCount <= min_instances

\* Service.chaos_terminate_random_instance
chaos_terminate_random_instance ==
    /\ world = "service"
    /\ calls < MaxCalls
    /\ calls' = calls + 1
    /\ IF chaos_terminate_guard
         THEN /\ last_return' = 0
              /\ succ' = succ
              /\ istatus' = istatus
         ELSE \E target \in get_healthy_instances :
                /\ istatus' = terminate(istatus, target)
                /\ last_return' = target
                /\ succ' = succ + 1
    /\ UNCHANGED <<world, ids, menu, moreVars, auxVars, members, ibase, min_instances, n0, frontVars, expVars>>


\* sum(inst.metrics.cpu_usage for inst in S)
RECURSIVE SumCpu(_, _)
SumCpu(cpu, S) ==
    IF S = {} THEN 0
    ELSE LET i == CHOOSE x \in S : TRUE IN cpu[i] + SumCpu(cpu, S \ {i})

\* min(healthy_instances, key=cpu_usage): the first of the least loaded ones
LeastLoaded(cpu, S) ==
    CHOOSE i \in S : \A j \in S : cpu[i] < cpu[j] \/ (cpu[i] = cpu[j] /\ i <= j)

\* Service._auto_scale_if_needed with auto_scaling_enabled, the healthy
\* instances having the CPU usages cpu: add_instance or remove_instance
auto_scale_if_needed(cpu) ==
    /\ world = "scale"
    /\ scale_calls < MaxScaleCalls
    /\ scale_calls' = scale_calls + 1
    /\ LET healthy_instances == get_healthy_instances
           current_count == Cardinality(healthy_instances)
           total == SumCpu(cpu, healthy_instances)
       IN IF healthy_instances = {}
            THEN UNCHANGED <<members, istatus, ibase>>
            ELSE IF total > 80 * current_count /\ current_count < max_instances
              THEN /\ Inst \ members # {}
                   /\ LET i == CHOOSE x \in Inst \ members : \A y \in Inst \ members : x <= y IN
                      /\ members' = members \cup {i}
                      /\ istatus' = [istatus EXCEPT ![i] = HEALTHY]
                      /\ ibase' = [ibase EXCEPT ![i] = NewBase(i)]
              ELSE IF total < 30 * current_count /\ current_count > min_instances
                THEN LET worst_instance == LeastLoaded(cpu, healthy_instances) IN
                     /\ members' = members \ {worst_instance}
                     /\ istatus' = [istatus EXCEPT ![worst_instance] = None]
                     /\ ibase' = [ibase EXCEPT ![worst_instance] = 0]
                ELSE UNCHANGED <<members, istatus, ibase>>
    /\ UNCHANGED <<world, ids, menu, breakerVars, bulkVars, doctorVars, lastVars, max_instances, auxVars, min_instances,
                   callVars, frontVars, expVars>>

\* ServiceInstance.health_check on an instance of status st: the status it
\* leaves, fail and recover being its two random draws (< 0.02, < 0.2)
HealthCheckStatus(st, fail, recover) ==
    IF st \in {TERMINATED, UNHEALTHY} THEN st
    ELSE IF fail THEN DEGRADED
    ELSE IF st = DEGRADED /\ recover THEN HEALTHY
    ELSE st

\* the fleet as a Doctor Monkey finds it
FleetNow == [members |-> members, istatus |-> istatus, ibase |-> ibase]

\* ChaosExperiment.start of a DoctorMonkey, and execute() up to its loop
doctor_start ==
    /\ world = "doctor"
    /\ doctor_pc = "idle"
    /\ doctor_pc' = "loop"
    /\ doctor_before' = FleetNow
    /\ UNCHANGED <<world, ids, menu, breakerVars, bulkVars, scaleVars, lastVars, oldVars, auxVars,
                   doctor_queue, scan_count>>

\* DoctorMonkey.execute: the loop condition; _perform_health_scan starts on
\* the instances of the services, or the loop ends, results are written and
\* the inherited cleanup() runs
doctor_loop ==
    /\ world = "doctor"
    /\ doctor_pc = "loop"
    /\ IF scan_count < MaxScans
         THEN /\ scan_count' = scan_count + 1
              /\ doctor_queue' = members
              /\ doctor_pc' = "scan"
         ELSE /\ doctor_pc' = "done"
              /\ UNCHANGED <<scan_count, doctor_queue>>
    /\ UNCHANGED <<world, ids, menu, breakerVars, bulkVars, scaleVars, lastVars, oldVars, auxVars,
                   doctor_before>>

\* DoctorMonkey._evaluate_instance_health on the next instance:
\* instance.health_check(); after the last one, time.sleep(30)
doctor_evaluate(fail, recover) ==
    /\ world = "doctor"
    /\ doctor_pc = "scan"
    /\ IF doctor_queue = {}
         THEN /\ doctor_pc' = "loop"
              /\ UNCHANGED <<doctor_queue, istatus>>
         ELSE LET i == CHOOSE x \in doctor_queue : \A y \in doctor_queue : x <= y IN
              /\ istatus' = [istatus EXCEPT ![i] = HealthCheckStatus(@, fail, recover)]
              /\ doctor_queue' = doctor_queue \ {i}
              /\ UNCHANGED doctor_pc
    /\ UNCHANGED <<world, ids, menu, breakerVars, bulkVars, scaleVars, lastVars, auxVars, members, ibase,
                   min_instances, callVars, frontVars, expVars, scan_count, doctor_before>>

\* Service._perform_health_checks, one round of health_check_loop: under
\* Service.lock, health_check() on every instance, and one
\* _auto_restart_instance thread for every instance found Terminated. The
\* CPU usages stay between 30 and 80, so that _auto_scale_if_needed does
\* nothing; fail and recover are the instances whose health_check() draws
\* below 0.02 and below 0.2
perform_health_checks(fail, recover) ==
    /\ world = "health"
    /\ svc_lock = 0
    /\ SumCpu(restart_tasks, Inst) + Cardinality({i \in members : istatus[i] = TERMINATED}) <= MaxTasks
    /\ istatus' = [i \in Inst |-> IF i \in members
                                     THEN HealthCheckStatus(istatus[i], i \in fail, i \in recover)
                                     ELSE istatus[i]]
    /\ restart_tasks' = [i \in Inst |-> IF i \in members /\ istatus[i] = TERMINATED
                                           THEN restart_tasks[i] + 1
                                           ELSE restart_tasks[i]]
    /\ UNCHANGED <<world, ids, menu, breakerVars, bulkVars, scaleVars, doctorVars, forceVars, loopVars, auxVars,
                   members, ibase, min_instances, callVars, frontVars, expVars,
                   svc_lock, shut_down, restart_count, term_count, noop_tasks>>

\* variant: the task restarts the instance whatever its status
auto_restart_begin_mut(i) ==
    /\ world = "health"
    /\ restart_tasks[i] > 0
    /\ svc_lock = 0
    /\ restart_tasks' = [restart_tasks EXCEPT ![i] = @ - 1]
    /\ IF i \in members
         THEN /\ istatus' = [istatus EXCEPT ![i] = RECOVERING]
              /\ svc_lock' = i
              /\ restart_count' = [restart_count EXCEPT ![i] = @ + 1]
              /\ UNCHANGED noop_tasks
         ELSE /\ noop_tasks' = noop_tasks \cup {i}
              /\ UNCHANGED <<istatus, svc_lock, restart_count>>
    /\ UNCHANGED <<world, ids, menu, breakerVars, bulkVars, scaleVars, doctorVars, forceVars, loopVars, auxVars,
                   members, ibase, min_instances, callVars, frontVars, expVars,
                   shut_down, term_count>>

\* Service._auto_restart_instance after its sleep: under Service.lock, the
\* instance is looked up and, if Terminated, instance.restart() sets it
\* Recovering and sleeps, the lock still held
auto_restart_begin(i) ==
    /\ world = "health"
    /\ restart_tasks[i] > 0
    /\ svc_lock = 0
    /\ restart_tasks' = [restart_tasks EXCEPT ![i] = @ - 1]
    /\ IF i \in members /\ istatus[i] = TERMINATED
         THEN /\ istatus' = [istatus EXCEPT ![i] = RECOVERING]
              /\ svc_lock' = i
              /\ restart_count' = [restart_count EXCEPT ![i] = @ + 1]
              /\ UNCHANGED noop_tasks
         ELSE /\ noop_tasks' = noop_tasks \cup {i}
              /\ UNCHANGED <<istatus, svc_lock, restart_count>>
    /\ UNCHANGED <<world, ids, menu, breakerVars, bulkVars, scaleVars, doctorVars, forceVars, loopVars, auxVars,
                   members, ibase, min_instances, callVars, frontVars, expVars,
                   shut_down, term_count>>

\* ServiceInstance.restart after its sleep: the instance is set Healthy, and
\* _auto_restart_instance releases Service.lock
auto_restart_end ==
    /\ world = "health"
    /\ svc_lock # 0
    /\ istatus' = [istatus EXCEPT ![svc_lock] = HEALTHY]
    /\ svc_lock' = 0
    /\ UNCHANGED <<world, ids, menu, breakerVars, bulkVars, scaleVars, doctorVars, forceVars, loopVars, auxVars,
                   members, ibase, min_instances, callVars, frontVars, expVars,
                   restart_tasks, shut_down, restart_count, term_count,
                   noop_tasks>>

\* ServiceInstance.terminate() on a running instance, as chaos does it,
\* without Service.lock
instance_terminate(i) ==
    /\ world = "health"
    /\ i \in members
    /\ istatus[i] # TERMINATED
    /\ SumCpu(term_count, Inst) < MaxTerms
    /\ istatus' = terminate(istatus, i)
    /\ term_count' = [term_count EXCEPT ![i] = @ + 1]
    /\ UNCHANGED <<world, ids, menu, breakerVars, bulkVars, scaleVars, doctorVars, forceVars, loopVars, auxVars,
                   members, ibase, min_instances, callVars, frontVars, expVars,
                   svc_lock, restart_tasks, shut_down, restart_count,
                   noop_tasks>>

\* Service.remove_instance: under Service.lock, terminate() and deletion
remove_instance(i) ==
    /\ world = "health"
    /\ svc_lock = 0
    /\ i \in members
    /\ members' = members \ {i}
    /\ istatus' = [istatus EXCEPT ![i] = None]
    /\ ibase' = [ibase EXCEPT ![i] = 0]
    /\ term_count' = [term_count EXCEPT ![i] = IF istatus[i] = TERMINATED THEN @ ELSE @ + 1]
    /\ UNCHANGED <<world, ids, menu, breakerVars, bulkVars, scaleVars, doctorVars, forceVars, loopVars, auxVars,
                   min_instances, callVars, frontVars, expVars,
                   svc_lock, restart_tasks, shut_down, restart_count,
                   noop_tasks>>

\* Service.shutdown: under Service.lock, terminate() on every instance
Service_shutdown ==
    /\ world = "health"
    /\ svc_lock = 0
    /\ ~shut_down
    /\ istatus' = [i \in Inst |-> IF i \in members THEN TERMINATED ELSE istatus[i]]
    /\ term_count' = [i \in Inst |-> IF i \in members /\ istatus[i] # TERMINATED
                                        THEN term_count[i] + 1 ELSE term_count[i]]
    /\ shut_down' = TRUE
    /\ UNCHANGED <<world, ids, menu, breakerVars, bulkVars, scaleVars, doctorVars, forceVars, loopVars, auxVars,
                   members, ibase, min_instances, callVars, frontVars, expVars,
                   svc_lock, restart_tasks, restart_count, noop_tasks>>

\* Service.chaos_terminate_random_instance called by thread t, up to its test
\* of the minimum: the list of healthy instances is read without a lock
chaos_terminate_read(t) ==
    /\ world = "race"
    /\ chaos_pc[t] = "idle"
    /\ calls < MaxCalls
    /\ calls' = calls + 1
    /\ IF chaos_terminate_guard
         THEN /\ last_return' = 0
              /\ UNCHANGED <<chaos_pc, chaos_seen>>
         ELSE /\ chaos_seen' = [chaos_seen EXCEPT ![t] = get_healthy_instances]
              /\ chaos_pc' = [chaos_pc EXCEPT ![t] = "chosen"]
              /\ last_return' = last_return
    /\ UNCHANGED <<world, ids, menu, moreVars, alertVars, instVars, monkeyVars, pauseVars, sysVars,
                   trafficVars, meterVars, create_req, svcVars, succ, n0, frontVars, expVars>>

\* ... and from random.choice(healthy_instances) to the return
chaos_terminate_kill(t) ==
    /\ world = "race"
    /\ chaos_pc[t] = "chosen"
    /\ \E target \in chaos_seen[t] :
          /\ istatus' = terminate(istatus, target)
          /\ last_return' = target
    /\ succ' = succ + 1
    /\ chaos_pc' = [chaos_pc EXCEPT ![t] = "idle"]
    /\ chaos_seen' = [chaos_seen EXCEPT ![t] = {}]
    /\ UNCHANGED <<world, ids, menu, moreVars, alertVars, instVars, monkeyVars, pauseVars, sysVars,
                   trafficVars, meterVars, create_req, members, ibase, min_instances, calls, n0, frontVars,
                   expVars>>


\* Service.handle_request called by thread t, up to the first "+= 1" of the
\* branch it takes: no healthy instance, or the chosen instance answers (ok) or
\* raises ServiceException
service_request_begin(t, ok) ==
    /\ world = "traffic"
    /\ svc_req[t].pc = "idle"
    /\ service_calls < MaxServiceCalls
    /\ service_calls' = service_calls + 1
    /\ svc_req' = [svc_req EXCEPT ![t] =
                     [pc |-> IF get_healthy_instances # {} /\ ok THEN "ok" ELSE "raise",
                      at |-> 0, loaded |-> 0]]
    /\ UNCHANGED <<world, ids, menu, moreVars, alertVars, instVars, monkeyVars, pauseVars, sysVars,
                   chaos_pc, chaos_seen, request_count, successful_requests, error_count,
                   meterVars, create_req, oldVars>>

\* the two counter updates of the branch, each "+= 1" a load and a store of
\* one more than the value loaded:
\* request_count then successful_requests after a response, error_count then
\* request_count before ServiceException is raised
service_request_count(t) ==
    LET r == svc_req[t]
        first == (r.at \in {0, 1})
        on_requests == (r.pc = "ok") = first
    IN
    /\ world = "traffic"
    /\ r.pc # "idle"
    /\ IF r.at \in {0, 2}
         THEN /\ svc_req' = [svc_req EXCEPT ![t] =
                    [r EXCEPT !.at = @ + 1,
                              !.loaded = IF on_requests THEN request_count
                                         ELSE IF r.pc = "ok" THEN successful_requests
                                         ELSE error_count]]
              /\ UNCHANGED <<request_count, successful_requests, error_count>>
         ELSE /\ svc_req' = [svc_req EXCEPT ![t] =
                    IF r.at = 3 THEN [pc |-> "idle", at |-> 0, loaded |-> 0]
                    ELSE [r EXCEPT !.at = 2, !.loaded = 0]]
              /\ request_count' = IF on_requests THEN r.loaded + 1
                                   ELSE request_count
              /\ successful_requests' = IF ~on_requests /\ r.pc = "ok"
                                           THEN r.loaded + 1
                                           ELSE successful_requests
              /\ error_count' = IF ~on_requests /\ r.pc = "raise"
                                   THEN r.loaded + 1
                                   ELSE error_count
    /\ UNCHANGED <<world, ids, menu, moreVars, alertVars, instVars, monkeyVars, pauseVars, sysVars,
                   chaos_pc, chaos_seen, service_calls, meterVars, create_req, oldVars>>


\* ------------------------------------------------------------- experiments
target_services == {"svc"}      \* names registered with the front end
ServiceRegion == "us"           \* Service.region, copied to every instance

NoApi == [op |-> None, id |-> None, result |-> None]

NoCfg == [cls |-> None, type |-> None, target |-> None, zone |-> None, duration |-> 0]

RunningCount ==
    Cardinality({x \in active_experiments : status[x] = RUNNING})

\* variant: an exception without text, as the bare NotImplementedError of the base class
ExcMessage_mut(e) == ""

\* str(e) of the exception execute() raises for this experiment
ExcMessage(e) ==
    CASE cfg[e].type = TERMINATION -> "No se puede terminar instancia"
      [] cfg[e].type = NETWORK_LATENCY -> "Servicio no encontrado"
      [] OTHER -> "None"          \* str(KeyError(None)): self.services[None]

\* Service.add_instance, n times: fresh ids, HEALTHY, a fresh base_response_time.
\* The instance map is capped at MaxInst entries.
FreshIds(n) ==
    {i \in Inst \ members :
        Cardinality({j \in Inst \ members : j < i}) < n}

\* ChaosExperiment.start / BaseExperiment.start: the state change when status is PENDING
start(e) ==
    /\ status' = [status EXCEPT ![e] = RUNNING]
    /\ pc' = [pc EXCEPT ![e] = "exec"]
    /\ pre_base' = [pre_base EXCEPT ![e] = [i \in members |-> ibase[i]]]

\* LatencyMonkey.execute up to its loop (also LatencyExperiment.execute)
LatencyApply(e) ==
    /\ original' = [original EXCEPT ![e] = [i \in members |-> ibase[i]]]
    /\ ibase' = [i \in Inst |-> IF i \in members THEN ibase[i] + LatencyMs ELSE ibase[i]]
    /\ pc' = [pc EXCEPT ![e] = "loop"]
    /\ UNCHANGED <<members, istatus, killed>>

\* ChaosGorilla.execute / ChaosKong.execute up to the loop
ZoneTerminate(e) ==
    LET hit == IF cfg[e].zone = ServiceRegion THEN members ELSE {} IN
    /\ istatus' = [i \in Inst |-> IF i \in hit THEN TERMINATED ELSE istatus[i]]
    /\ killed' = [killed EXCEPT ![e] = hit]
    /\ pc' = [pc EXCEPT ![e] = "loop"]
    /\ UNCHANGED <<members, ibase, original>>

\* TerminationExperiment.execute
TerminationExecute(e) ==
    IF HealthyCount <= min_instances
      THEN /\ pc' = [pc EXCEPT ![e] = "except"]
           /\ UNCHANGED <<members, istatus, ibase, original, killed>>
      ELSE \E target \in get_healthy_instances :
             /\ istatus' = terminate(istatus, target)
             /\ pc' = [pc EXCEPT ![e] = "check"]
             /\ UNCHANGED <<members, ibase, original, killed>>

\* _run_experiment: execute() is entered and runs up to its monitoring loop
execute_begin(e) ==
    /\ world \in {"runner", "manager", "system", "callers"}
    /\ pc[e] = "exec"
    /\ exec_count' = [exec_count EXCEPT ![e] = @ + 1]
    /\ CASE cfg[e].type \in {NETWORK_LATENCY, LATENCY} ->
              IF cfg[e].target \notin target_services
                THEN /\ pc' = [pc EXCEPT ![e] = "except"]
                     /\ UNCHANGED <<members, istatus, ibase, original, killed>>
                ELSE LatencyApply(e)
         [] cfg[e].type \in {CHAOS_GORILLA, CHAOS_KONG} -> ZoneTerminate(e)
         [] OTHER -> TerminationExecute(e)
    /\ raised' = [raised EXCEPT ![e] = (pc'[e] = "except")]
    /\ api' = NoApi
    /\ UNCHANGED <<world, ids, menu, moreVars, auxVars, min_instances, callVars, flagVars, regVars, cfg, status,
                   should_stop, ticks, error_message, cleanup_count, pre_base>>

\* LatencyMonkey's loop body: re-randomise the latency of one healthy instance
LatencyJitter ==
    IF get_healthy_instances = {}
      THEN UNCHANGED ibase
      ELSE \E r \in {0 - VarianceMs, VarianceMs}, target \in get_healthy_instances :
             LET current_latency == IF LatencyMs + r < 0 THEN 0 ELSE LatencyMs + r
                 additional_latency == current_latency - LatencyMs
             IN ibase' = [ibase EXCEPT ![target] = @ + additional_latency]

\* LatencyExperiment.execute restores after its loop (LatencyMonkey does so in cleanup)
RestoreLatencies(e) ==
    [i \in Inst |->
        IF i \in DOMAIN original[e] /\ i \in members THEN original[e][i] ELSE ibase[i]]

\* variant: the loop does not look at the cancel flag
execute_loop_mut(e) ==
    /\ world \in {"runner", "manager", "system", "callers"}
    /\ pc[e] = "loop"
    /\ IF ticks[e] < cfg[e].duration
         THEN /\ ticks' = [ticks EXCEPT ![e] = @ + 1]
              /\ pc' = pc
              /\ IF cfg[e].type = NETWORK_LATENCY THEN LatencyJitter ELSE UNCHANGED ibase
         ELSE /\ ticks' = ticks
              /\ pc' = [pc EXCEPT ![e] = "check"]
              /\ ibase' = IF cfg[e].type = LATENCY THEN RestoreLatencies(e) ELSE ibase
    /\ api' = NoApi
    /\ UNCHANGED <<world, ids, menu, moreVars, auxVars, members, istatus, min_instances, callVars, flagVars, regVars,
                   cfg, status, should_stop, error_message, original, killed, exec_count, raised,
                   cleanup_count, pre_base>>

\* execute(): one evaluation of the loop condition, then either one body and
\* the sleep that follows it, or the code after the loop and the return
execute_loop(e) ==
    /\ world \in {"runner", "manager", "system", "callers"}
    /\ pc[e] = "loop"
    /\ IF ~should_stop[e] /\ ticks[e] < cfg[e].duration
         THEN /\ ticks' = [ticks EXCEPT ![e] = @ + 1]
              /\ pc' = pc
              /\ IF cfg[e].type = NETWORK_LATENCY THEN LatencyJitter ELSE UNCHANGED ibase
         ELSE /\ ticks' = ticks
              /\ pc' = [pc EXCEPT ![e] = "check"]
              /\ ibase' = IF cfg[e].type = LATENCY THEN RestoreLatencies(e) ELSE ibase
    /\ api' = NoApi
    /\ UNCHANGED <<world, ids, menu, moreVars, auxVars, members, istatus, min_instances, callVars, flagVars, regVars,
                   cfg, status, should_stop, error_message, original, killed, exec_count, raised,
                   cleanup_count, pre_base>>

\* variant: a stopped experiment leaves the thread without the finally clause
run_check_mut(e) ==
    /\ world \in {"runner", "manager", "system", "callers"}
    /\ pc[e] = "check"
    /\ pc' = [pc EXCEPT ![e] = IF ~should_stop[e] THEN "setc" ELSE "done"]
    /\ api' = NoApi
    /\ UNCHANGED <<world, ids, menu, moreVars, auxVars, svcVars, callVars, flagVars, regVars, cfg, status, should_stop, ticks,
                   error_message, original, killed, exec_count, raised, cleanup_count, pre_base>>

\* _run_experiment: "if not self.should_stop.is_set()" after execute() returned
run_check(e) ==
    /\ world \in {"runner", "manager", "system", "callers"}
    /\ pc[e] = "check"
    /\ pc' = [pc EXCEPT ![e] = IF ~should_stop[e] THEN "setc" ELSE "finally"]
    /\ api' = NoApi
    /\ UNCHANGED <<world, ids, menu, moreVars, auxVars, svcVars, callVars, flagVars, regVars, cfg, status, should_stop, ticks,
                   error_message, original, killed, exec_count, raised, cleanup_count, pre_base>>

\* _run_experiment: "self.status = ExperimentStatus.COMPLETED"
run_completed(e) ==
    /\ world \in {"runner", "manager", "system", "callers"}
    /\ pc[e] = "setc"
    /\ status' = [status EXCEPT ![e] = COMPLETED]
    /\ pc' = [pc EXCEPT ![e] = "finally"]
    /\ api' = NoApi
    /\ UNCHANGED <<world, ids, menu, moreVars, auxVars, svcVars, callVars, flagVars, regVars, cfg, should_stop, ticks,
                   error_message, original, killed, exec_count, raised, cleanup_count, pre_base>>

\* _run_experiment: the except clause
run_except(e) ==
    /\ world \in {"runner", "manager", "system", "callers"}
    /\ pc[e] = "except"
    /\ status' = [status EXCEPT ![e] = FAILED]
    /\ error_message' = [error_message EXCEPT ![e] = ExcMessage(e)]
    /\ pc' = [pc EXCEPT ![e] = "finally"]
    /\ api' = NoApi
    /\ UNCHANGED <<world, ids, menu, moreVars, auxVars, svcVars, callVars, flagVars, regVars, cfg, should_stop, ticks,
                   original, killed, exec_count, raised, cleanup_count, pre_base>>

\* cleanup() of the experiment's class
cleanup(e) ==
    CASE cfg[e].type = NETWORK_LATENCY ->
            /\ ibase' = IF cfg[e].target \in target_services
                          THEN RestoreLatencies(e) ELSE ibase
            /\ UNCHANGED <<members, istatus>>
      [] cfg[e].type = CHAOS_GORILLA ->
            LET new == FreshIds(Cardinality(killed[e])) IN
            /\ members' = members \cup new
            /\ istatus' = [i \in Inst |-> IF i \in new THEN HEALTHY ELSE istatus[i]]
            /\ ibase' = [i \in Inst |-> IF i \in new THEN NewBase(i) ELSE ibase[i]]
      [] OTHER -> UNCHANGED <<members, istatus, ibase>>

\* _run_experiment: the finally clause
run_finally(e) ==
    /\ world \in {"runner", "manager", "system", "callers"}
    /\ pc[e] = "finally"
    /\ cleanup_count' = [cleanup_count EXCEPT ![e] = @ + 1]
    /\ cleanup(e)
    /\ pc' = [pc EXCEPT ![e] = "done"]
    /\ api' = NoApi
    /\ UNCHANGED <<world, ids, menu, moreVars, auxVars, min_instances, callVars, flagVars, regVars, cfg, status, should_stop,
                   ticks, error_message, original, killed, exec_count, raised, pre_base>>


\* ------------------------------------------------------- ExperimentRunner
Destructive == {CHAOS_GORILLA, CHAOS_KONG}

\* variant: blocked at the minimum as well
TooFewHealthy_mut == HealthyCount <= min_instances

\* ExperimentRunner._safety_check: the target service has too few healthy instances
TooFewHealthy == HealthyCount < min_instances

\* ExperimentRunner._safety_check, with require_confirmation as the caller set it
Runner_safety_check(e, confirmation) ==
    /\ target_services # {}
    /\ cfg[e].target # None =>
          /\ cfg[e].target \in target_services
          /\ ~TooFewHealthy
    /\ cfg[e].type = CHAOS_GORILLA =>
          {x \in active_experiments :
              cfg[x].type \in Destructive /\ status[x] = RUNNING} = {}
    /\ cfg[e].type = CHAOS_KONG => ~confirmation

\* ExperimentRunner.set_safety_mode
set_safety_mode(enabled, dry_run, confirmation) ==
    /\ world = "runner"
    /\ created = {}
    /\ safety_checks_enabled' = enabled
    /\ dry_run_mode' = dry_run
    /\ require_confirmation' = confirmation
    /\ api' = [op |-> "set_safety_mode", id |-> None, result |-> None]
    /\ UNCHANGED <<world, ids, menu, moreVars, auxVars, svcVars, callVars, max_concurrent_experiments,
                   active_experiments, created, history, lockpc, lockid, expVars>>

\* The id the next create call hands out (uuid4 in the source: any unused one)
IdRank(e) == CASE e = "e1" -> 1 [] e = "e2" -> 2 [] OTHER -> 3

NextId ==
    CHOOSE e \in ids \ created : \A x \in ids \ created : IdRank(e) <= IdRank(x)

RunnerTypes == {NETWORK_LATENCY, CHAOS_GORILLA, CHAOS_KONG}

\* create_latency_experiment / create_chaos_gorilla_experiment /
\* create_chaos_kong_experiment, each ending in _register_experiment
create_experiment(type, target, duration) ==
    /\ world \in {"runner", "system"}
    /\ lockpc = "free"
    /\ created # ids
    /\ type \in menu
    /\ LET e == NextId IN
       /\ created' = created \cup {e}
       /\ active_experiments' = active_experiments \cup {e}
       /\ cfg' = [cfg EXCEPT ![e] =
                    [cls |-> "ChaosExperiment", type |-> type,
                     target |-> IF type = NETWORK_LATENCY THEN target ELSE None,
                     zone |-> IF type = NETWORK_LATENCY THEN None ELSE ServiceRegion,
                     duration |-> duration]]
       /\ api' = [op |-> "create", id |-> e, result |-> e]
    /\ UNCHANGED <<world, ids, menu, moreVars, auxVars, svcVars, callVars, flagVars, history, lockpc, lockid,
                   status, should_stop, pc, ticks, error_message, original, killed,
                   exec_count, raised, cleanup_count, pre_base>>

\* variant: the limit check lets one more through
AtLimit_mut == RunningCount > max_concurrent_experiments

\* start_experiment: the limit of concurrent experiments is reached
AtLimit == RunningCount >= max_concurrent_experiments

\* What start_experiment returns, with the safety flags as its caller set them
StartResult(e, checks, confirmation) ==
    IF e \notin active_experiments THEN FALSE
    ELSE IF checks /\ ~Runner_safety_check(e, confirmation) THEN FALSE
    ELSE IF AtLimit THEN FALSE
    ELSE IF dry_run_mode THEN TRUE
    ELSE status[e] = PENDING

\* Whether start_experiment reaches experiment.start()
StartReached(e, checks, confirmation) ==
    /\ e \in active_experiments
    /\ ~(checks /\ ~Runner_safety_check(e, confirmation))
    /\ ~AtLimit
    /\ ~dry_run_mode

\* The body of ExperimentRunner.start_experiment, under the runner's lock
StartCore(op, e, checks, confirmation) ==
    /\ world \in {"runner", "system"}
    /\ lockpc = "free"
    /\ e \in created
    /\ api' = [op |-> op, id |-> e, result |-> IF StartResult(e, checks, confirmation) THEN "True" ELSE "False"]
    /\ IF StartReached(e, checks, confirmation) /\ status[e] = PENDING
         THEN start(e)
         ELSE UNCHANGED <<status, pc, pre_base>>
    /\ UNCHANGED <<world, ids, menu, auxVars, svcVars, callVars, safety_checks_enabled, dry_run_mode,
                   require_confirmation, max_concurrent_experiments, active_experiments,
                   created, history, lockpc, lockid, cfg, should_stop, ticks,
                   error_message, original, killed, exec_count, raised, cleanup_count>>

\* ... called by a client that does nothing else meanwhile
StartBody(op, e, checks, confirmation) ==
    /\ StartCore(op, e, checks, confirmation)
    /\ UNCHANGED moreVars

\* ExperimentRunner.start_experiment
start_experiment(e) ==
    StartBody("start_experiment", e, safety_checks_enabled, require_confirmation)

\* ExperimentRunner.force_experiment: both flags off around start_experiment,
\* then put back
force_experiment(e) ==
    StartBody("force_experiment", e, FALSE, FALSE)

\* ExperimentRunner.force_experiment called by thread c, up to its call of
\* start_experiment: the two flags are saved and switched off, the runner's
\* lock not held
force_bypass(c, e) ==
    /\ world = "runner"
    /\ force_pc[c] = "idle"
    /\ e \in created
    /\ force_old' = [force_old EXCEPT ![c] = <<safety_checks_enabled, require_confirmation>>]
    /\ force_id' = [force_id EXCEPT ![c] = e]
    /\ safety_checks_enabled' = FALSE
    /\ require_confirmation' = FALSE
    /\ force_pc' = [force_pc EXCEPT ![c] = "start"]
    /\ UNCHANGED <<world, ids, menu, breakerVars, bulkVars, scaleVars, doctorVars, healthVars, loopVars,
                   auxVars, svcVars, callVars, dry_run_mode, max_concurrent_experiments,
                   regVars, api, expVars>>

\* ... its call of start_experiment, which reads the flags as they are now
force_start(c) ==
    /\ force_pc[c] = "start"
    /\ StartCore("force_experiment", force_id[c], safety_checks_enabled, require_confirmation)
    /\ force_pc' = [force_pc EXCEPT ![c] = "restore"]
    /\ UNCHANGED <<breakerVars, bulkVars, scaleVars, doctorVars, healthVars, loopVars, force_old,
                   force_id>>

\* ... the flags are put back to the saved values, and it returns
force_restore(c) ==
    /\ world = "runner"
    /\ force_pc[c] = "restore"
    /\ safety_checks_enabled' = force_old[c][1]
    /\ require_confirmation' = force_old[c][2]
    /\ force_pc' = [force_pc EXCEPT ![c] = "idle"]
    /\ UNCHANGED <<world, ids, menu, breakerVars, bulkVars, scaleVars, doctorVars, healthVars, loopVars,
                   auxVars, svcVars, callVars, dry_run_mode, max_concurrent_experiments,
                   regVars, api, expVars, force_old, force_id>>

\* ExperimentRunner.stop_experiment up to ChaosExperiment.stop's join
stop_experiment(e) ==
    /\ world \in {"runner", "system"}
    /\ lockpc = "free"
    /\ e \in created
    /\ IF e \notin active_experiments
         THEN /\ api' = [op |-> "stop_experiment", id |-> e, result |-> "False"]
              /\ UNCHANGED <<should_stop, lockpc, lockid>>
         ELSE /\ should_stop' = [should_stop EXCEPT ![e] = TRUE]
              /\ IF pc[e] # "idle"
                   THEN /\ lockpc' = "join"
                        /\ lockid' = e
                        /\ api' = [op |-> "stop_experiment", id |-> e, result |-> None]
                   ELSE /\ api' = [op |-> "stop_experiment", id |-> e, result |-> "True"]
                        /\ UNCHANGED <<lockpc, lockid>>
    /\ UNCHANGED <<world, ids, menu, moreVars, auxVars, svcVars, callVars, safety_checks_enabled, dry_run_mode,
                   require_confirmation, max_concurrent_experiments, active_experiments,
                   created, history, cfg, status, pc, ticks, error_message, original,
                   killed, exec_count, raised, cleanup_count, pre_base>>

\* The thread is in the time.sleep of its loop
Sleeping(e) == pc[e] = "loop" /\ ticks[e] > 0

\* ChaosExperiment.stop: join(timeout=10) returns (the thread ended, or it is
\* asleep in its loop when the 10 s run out), then Running becomes Cancelled
stop_join ==
    /\ world \in {"runner", "system"}
    /\ lockpc = "join"
    /\ pc[lockid] = "done" \/ Sleeping(lockid)
    /\ status' = [status EXCEPT ![lockid] = IF @ = RUNNING THEN CANCELLED ELSE @]
    /\ lockpc' = IF stop_op = "" THEN "free" ELSE "all"
    /\ lockid' = None
    /\ api' = [op |-> "stop_experiment", id |-> lockid, result |-> "True"]
    /\ UNCHANGED <<world, ids, menu, moreVars, auxVars, svcVars, callVars, safety_checks_enabled, dry_run_mode,
                   require_confirmation, max_concurrent_experiments, active_experiments,
                   created, history, cfg, should_stop, pc, ticks, error_message, original,
                   killed, exec_count, raised, cleanup_count, pre_base>>

\* variant: every recorded experiment is notified as completed
MonitorEvent_mut(st) == "on_complete"

\* ExperimentRunner._monitor_experiment: the callbacks notified for a status
MonitorEvent(st) ==
    CASE st = COMPLETED -> "on_complete"
      [] st = FAILED -> "on_fail"
      [] st = CANCELLED -> "on_cancel"
      [] OTHER -> "none"

\* _monitor_experiment (runner and manager), the thread start_experiment spawned
\* for e: once the experiment is no longer Running, record it in the history and
\* drop it from active_experiments; the runner also counts it and notifies the
\* callbacks of its status
monitor_experiment(e) ==
    /\ world \in {"runner", "manager", "system", "callers"}
    /\ lockpc = "free"
    /\ pc[e] # "idle"
    /\ history[e] = None
    /\ status[e] # RUNNING
    /\ history' = [history EXCEPT ![e] = status[e]]
    /\ active_experiments' = active_experiments \ {e}
    /\ IF cfg[e].cls = "ChaosExperiment"
         THEN /\ successful_experiments' =
                    successful_experiments + (IF status[e] = COMPLETED THEN 1 ELSE 0)
              /\ failed_experiments' = failed_experiments + (IF status[e] = FAILED THEN 1 ELSE 0)
              /\ fired' = [fired EXCEPT ![e] =
                             IF MonitorEvent(status[e]) = "none" THEN @
                             ELSE Append(@, MonitorEvent(status[e]))]
         ELSE UNCHANGED meterVars
    /\ api' = NoApi
    /\ UNCHANGED <<world, ids, menu, moreVars, alertVars, instVars, monkeyVars, pauseVars, sysVars, chaos_pc,
                   chaos_seen, trafficVars, create_req, svcVars, callVars, flagVars, created,
                   lockpc, lockid, expVars>>


\* ------------------------------------------------- ChaosExperimentManager
\* ChaosExperimentManager._safety_check
Manager_safety_check(type, target) ==
    /\ target_services # {}
    /\ target # None =>
          /\ target \in target_services
          /\ type = TERMINATION => ~(HealthyCount <= min_instances)

\* What create_and_run_experiment returns or raises
CreateResult(type, target) ==
    IF safety_checks_enabled /\ ~Manager_safety_check(type, target) THEN "raise:safety"
    ELSE IF Cardinality(active_experiments) >= max_concurrent_experiments
      THEN "raise:limit"
    ELSE IF target # None /\ target \notin target_services THEN "raise:ValueError"
    ELSE "started"

\* ChaosExperimentManager.create_and_run_experiment
create_and_run_experiment(type, target, duration) ==
    /\ world = "manager"
    /\ lockpc = "free"
    /\ created # ids
    /\ type \in menu
    /\ LET e == NextId IN
       /\ api' = [op |-> "create_and_run_experiment", id |-> e,
                  result |-> CreateResult(type, target)]
       /\ IF CreateResult(type, target) = "started"
            THEN /\ created' = created \cup {e}
                 /\ active_experiments' = active_experiments \cup {e}
                 /\ cfg' = [cfg EXCEPT ![e] =
                              [cls |-> "BaseExperiment", type |-> type, target |-> target,
                               zone |-> None, duration |-> duration]]
                 /\ start(e)
            ELSE UNCHANGED <<created, active_experiments, cfg, status, pc, pre_base>>
    /\ UNCHANGED <<world, ids, menu, moreVars, auxVars, svcVars, callVars, safety_checks_enabled, dry_run_mode,
                   require_confirmation, max_concurrent_experiments, history, lockpc,
                   lockid, should_stop, ticks, error_message, original, killed,
                   exec_count, raised, cleanup_count>>

\* a caller that is not inside create_and_run_experiment
NoRequest == [pc |-> "idle", id |-> None, type |-> None, target |-> None, duration |-> 0]

\* create_and_run_experiment called from one of several threads, up to the end
\* of its first lock section: the id, the safety check, and the limit check
\* under the manager's lock
create_and_run_check(t, type, target, duration) ==
    /\ world = "callers"
    /\ create_req[t].pc = "idle"
    /\ type \in menu
    /\ LET free == ids \ (created \cup {create_req[u].id : u \in 1..2}) IN
       /\ free # {}
       /\ LET e == CHOOSE x \in free : \A y \in free : IdRank(x) <= IdRank(y) IN
          IF safety_checks_enabled /\ ~Manager_safety_check(type, target)
            THEN /\ api' = [op |-> "create_and_run_experiment", id |-> e, result |-> "raise:safety"]
                 /\ UNCHANGED create_req
            ELSE IF Cardinality(active_experiments) >= max_concurrent_experiments
              THEN /\ api' = [op |-> "create_and_run_experiment", id |-> e, result |-> "raise:limit"]
                   /\ UNCHANGED create_req
              ELSE /\ create_req' = [create_req EXCEPT ![t] =
                                       [pc |-> "passed", id |-> e, type |-> type,
                                        target |-> target, duration |-> duration]]
                   /\ api' = NoApi
    /\ UNCHANGED <<world, ids, menu, moreVars, alertVars, instVars, monkeyVars, pauseVars, sysVars, chaos_pc,
                   chaos_seen, trafficVars, meterVars, svcVars, callVars, flagVars, regVars,
                   expVars>>

\* the rest of the call: _create_experiment, the second lock section that
\* registers the experiment, and experiment.start()
create_and_run_register(t) ==
    /\ world = "callers"
    /\ create_req[t].pc = "passed"
    /\ create_req' = [create_req EXCEPT ![t] = NoRequest]
    /\ LET r == create_req[t]
           e == r.id
       IN IF r.target # None /\ r.target \notin target_services
            THEN /\ api' = [op |-> "create_and_run_experiment", id |-> e,
                            result |-> "raise:ValueError"]
                 /\ UNCHANGED <<created, active_experiments, cfg, status, pc, pre_base>>
            ELSE /\ api' = [op |-> "create_and_run_experiment", id |-> e, result |-> "started"]
                 /\ created' = created \cup {e}
                 /\ active_experiments' = active_experiments \cup {e}
                 /\ cfg' = [cfg EXCEPT ![e] =
                              [cls |-> "BaseExperiment", type |-> r.type, target |-> r.target,
                               zone |-> None, duration |-> r.duration]]
                 /\ start(e)
    /\ UNCHANGED <<world, ids, menu, moreVars, alertVars, instVars, monkeyVars, pauseVars, sysVars, chaos_pc,
                   chaos_seen, trafficVars, meterVars, svcVars, callVars, safety_checks_enabled,
                   dry_run_mode, require_confirmation, max_concurrent_experiments, history,
                   lockpc, lockid, should_stop, ticks, error_message, original, killed,
                   exec_count, raised, cleanup_count>>

\* ChaosExperimentManager.stop_experiment -> BaseExperiment.stop, up to its
\* read of self.status
Manager_stop_experiment(e) ==
    /\ world = "manager"
    /\ lockpc = "free"
    /\ e \in created
    /\ IF e \notin active_experiments
         THEN /\ api' = [op |-> "stop_experiment", id |-> e, result |-> "False"]
              /\ UNCHANGED <<should_stop, lockpc, lockid>>
         ELSE /\ should_stop' = [should_stop EXCEPT ![e] = TRUE]
              /\ IF status[e] = RUNNING
                   THEN /\ lockpc' = "mark"
                        /\ lockid' = e
                        /\ api' = [op |-> "stop_experiment", id |-> e, result |-> None]
                   ELSE /\ api' = [op |-> "stop_experiment", id |-> e, result |-> "True"]
                        /\ UNCHANGED <<lockpc, lockid>>
    /\ UNCHANGED <<world, ids, menu, moreVars, auxVars, svcVars, callVars, safety_checks_enabled, dry_run_mode,
                   require_confirmation, max_concurrent_experiments, active_experiments,
                   created, history, cfg, status, pc, ticks, error_message, original,
                   killed, exec_count, raised, cleanup_count, pre_base>>

\* BaseExperiment.stop: "self.status = ExperimentStatus.CANCELLED"
stop_mark ==
    /\ world = "manager"
    /\ lockpc = "mark"
    /\ status' = [status EXCEPT ![lockid] = CANCELLED]
    /\ lockpc' = "free"
    /\ lockid' = None
    /\ api' = [op |-> "stop_experiment", id |-> lockid, result |-> "True"]
    /\ UNCHANGED <<world, ids, menu, moreVars, auxVars, svcVars, callVars, safety_checks_enabled, dry_run_mode,
                   require_confirmation, max_concurrent_experiments, active_experiments,
                   created, history, cfg, should_stop, pc, ticks, error_message, original,
                   killed, exec_count, raised, cleanup_count, pre_base>>

\* ------------------------------------------------------------ AlertManager
\* _setup_default_alert_rules
AlertRules == <<
    [name |-> "high_response_time", metric |-> "response_time_ms", threshold |-> 1000, operator |-> ">"],
    [name |-> "high_error_rate", metric |-> "error_rate", threshold |-> 5, operator |-> ">"],
    [name |-> "low_availability", metric |-> "availability", threshold |-> 90, operator |-> "<"],
    [name |-> "high_cpu_usage", metric |-> "cpu_usage", threshold |-> 85, operator |-> ">"],
    [name |-> "high_memory_usage", metric |-> "memory_usage", threshold |-> 85, operator |-> ">"] >>

\* the metrics and values the monitoring loop reports in the model: one rule of
\* each operator, values on both sides of and at the threshold
MetricNames == {"response_time_ms", "availability"}
MetricValues(m) ==
    UNION {{AlertRules[k].threshold - 1, AlertRules[k].threshold, AlertRules[k].threshold + 1} :
              k \in {j \in DOMAIN AlertRules : AlertRules[j].metric = m}}
InstanceIds == {None, "i1"}

\* f"{service_name}:{instance_id or 'service'}:{rule['name']}"
AlertId(service_name, instance_id, rule) ==
    <<service_name, IF instance_id = None THEN "service" ELSE instance_id, rule.name>>

AlertIds ==
    {AlertId(s, i, AlertRules[k]) : s \in target_services, i \in InstanceIds,
                                    k \in {j \in DOMAIN AlertRules : AlertRules[j].metric \in MetricNames}}

\* AlertManager._evaluate_rule
_evaluate_rule(rule, value) ==
    CASE rule.operator = ">" -> value > rule.threshold
      [] rule.operator = "<" -> value < rule.threshold
      [] rule.operator = ">=" -> value >= rule.threshold
      [] rule.operator = "<=" -> value <= rule.threshold
      [] rule.operator = "==" -> value = rule.threshold
      [] rule.operator = "!=" -> value # rule.threshold
      [] OTHER -> FALSE

\* variant: the test that no alert is stored under the id yet dropped
NotStored_mut(id) == TRUE

\* alert_id not in self.alerts
NotStored(id) == alerts[id] = "absent"

\* AlertManager.get_active_alerts, as alert ids
get_active_alerts == {id \in AlertIds : alerts[id] # "absent" /\ alerts[id] # "resolved"}

\* AlertManager.add_alert_callback
add_alert_callback ==
    /\ world = "alerts"
    /\ alert_callbacks < MaxCallbacks
    /\ alert_callbacks' = alert_callbacks + 1
    /\ UNCHANGED <<world, ids, menu, moreVars, oldVars, instVars, monkeyVars, restVars, alerts, alert_objects, notified, check_calls, trail>>

\* AlertManager.check_metric (with _trigger_alert); the rules of the model have
\* distinct names, so the iterations of the loop touch distinct alert ids
check_metric(metric_name, value, service_name, instance_id) ==
    LET hit == {k \in DOMAIN AlertRules : AlertRules[k].metric = metric_name}
        RuleOf(id) == AlertRules[CHOOSE k \in hit : AlertId(service_name, instance_id, AlertRules[k]) = id]
        touched == {AlertId(service_name, instance_id, AlertRules[k]) : k \in hit}
        should_alert(id) == _evaluate_rule(RuleOf(id), value)
        creates(id) == id \in touched /\ should_alert(id) /\ NotStored(id)
        resolves(id) == id \in touched /\ ~should_alert(id) /\ ~NotStored(id) /\ alerts[id] # "resolved"
    IN /\ world = "alerts"
       /\ check_calls < MaxChecks
       /\ check_calls' = check_calls + 1
       /\ alerts' = [id \in AlertIds |-> IF creates(id) THEN "open"
                                         ELSE IF resolves(id) THEN "resolved" ELSE alerts[id]]
       /\ alert_objects' = [id \in AlertIds |-> alert_objects[id] + (IF creates(id) THEN 1 ELSE 0)]
       /\ notified' = [id \in AlertIds |->
                          notified[id] + (IF creates(id) THEN alert_callbacks ELSE 0)]
       /\ trail' = [id \in AlertIds |-> IF id \in touched THEN Append(trail[id], should_alert(id))
                                        ELSE trail[id]]
       /\ UNCHANGED <<world, ids, menu, moreVars, oldVars, instVars, monkeyVars, restVars, alert_callbacks>>

\* -------------------------------------------------------- ServiceInstance
\* variant: start_time and recovery_time reset whenever the old status is Terminated
ResetsClock_mut(status_, old_status) == old_status = TERMINATED

\* set_status: status == RECOVERING and old_status == TERMINATED
ResetsClock(status_, old_status) == status_ = RECOVERING /\ old_status = TERMINATED

\* ServiceInstance.set_status; time.time() is a later time than every earlier one
set_status(inst, status_) ==
    IF ResetsClock(status_, inst.status)
      THEN [inst EXCEPT !.status = status_,
                        !.start_time = inst.start_time + 1,
                        !.recovery_time = inst.start_time + 1]
      ELSE [inst EXCEPT !.status = status_]

OtherThreads == <<oldVars, alertVars, monkeyVars, restVars>>

\* ServiceInstance.terminate (chaos termination, a zone outage, a direct call)
terminate_call ==
    /\ world = "instance"
    /\ IF si.status = TERMINATED
         THEN repeat_calls < MaxRepeats /\ repeat_calls' = repeat_calls + 1
         ELSE UNCHANGED repeat_calls
    /\ si' = set_status(si, TERMINATED)
    /\ UNCHANGED <<world, ids, menu, moreVars, OtherThreads, si_pc, requests, response, metric_updates,
                   exhaustion_level, affected_instances, rx_ticks>>

\* ServiceInstance.restart up to its sleep
restart_begin ==
    /\ world = "instance"
    /\ si_pc.restart = "idle"
    /\ si.start_time < MaxRestarts
    /\ IF si.status = TERMINATED
         THEN /\ si' = set_status(si, RECOVERING)
              /\ si_pc' = [si_pc EXCEPT !.restart = "sleep"]
         ELSE UNCHANGED <<si, si_pc>>
    /\ UNCHANGED <<world, ids, menu, moreVars, OtherThreads, repeat_calls, requests, response, metric_updates,
                   exhaustion_level, affected_instances, rx_ticks>>

\* ... and after it
restart_end ==
    /\ world = "instance"
    /\ si_pc.restart = "sleep"
    /\ si' = [set_status(si, HEALTHY) EXCEPT !.failure_count = 0]
    /\ si_pc' = [si_pc EXCEPT !.restart = "idle"]
    /\ UNCHANGED <<world, ids, menu, moreVars, OtherThreads, repeat_calls, requests, response, metric_updates,
                   exhaustion_level, affected_instances, rx_ticks>>

\* ServiceInstance.health_check: the test of status at its top
health_check_begin ==
    /\ world = "instance"
    /\ si_pc.health = "idle"
    /\ IF si.status \in {TERMINATED, UNHEALTHY}
         THEN UNCHANGED si_pc
         ELSE si_pc' = [si_pc EXCEPT !.health = "checked"]
    /\ UNCHANGED <<world, ids, menu, moreVars, OtherThreads, si, repeat_calls, requests, response, metric_updates,
                   exhaustion_level, affected_instances, rx_ticks>>

\* ... random.random() < 0.02: set_status(DEGRADED), return False
health_check_degrade ==
    /\ world = "instance"
    /\ si_pc.health = "checked"
    /\ si' = set_status(si, DEGRADED)
    /\ si_pc' = [si_pc EXCEPT !.health = "idle"]
    /\ UNCHANGED <<world, ids, menu, moreVars, OtherThreads, repeat_calls, requests, response, metric_updates,
                   exhaustion_level, affected_instances, rx_ticks>>

\* ... otherwise the test status == DEGRADED and random.random() < 0.2
health_check_test ==
    /\ world = "instance"
    /\ si_pc.health = "checked"
    /\ \/ si.status = DEGRADED /\ si_pc' = [si_pc EXCEPT !.health = "recover"]
       \/ si_pc' = [si_pc EXCEPT !.health = "idle"]
    /\ UNCHANGED <<world, ids, menu, moreVars, OtherThreads, si, repeat_calls, requests, response, metric_updates,
                   exhaustion_level, affected_instances, rx_ticks>>

\* ... and the set_status(HEALTHY) it guards
health_check_recover ==
    /\ world = "instance"
    /\ si_pc.health = "recover"
    /\ si' = set_status(si, HEALTHY)
    /\ si_pc' = [si_pc EXCEPT !.health = "idle"]
    /\ UNCHANGED <<world, ids, menu, moreVars, OtherThreads, repeat_calls, requests, response, metric_updates,
                   exhaustion_level, affected_instances, rx_ticks>>

\* ServiceInstance.handle_request up to its sleep, under the instance's lock
handle_request_begin ==
    /\ world = "instance"
    /\ si_pc.request = "idle"
    /\ requests < MaxRequests
    /\ requests' = requests + 1
    /\ IF si.status \in {UNHEALTHY, TERMINATED}
         THEN /\ response' = "raise"
              /\ UNCHANGED si_pc
         ELSE /\ response' = "none"
              /\ si_pc' = [si_pc EXCEPT !.request = "sleep"]
    /\ UNCHANGED <<world, ids, menu, moreVars, OtherThreads, si, repeat_calls, metric_updates,
                   exhaustion_level, affected_instances, rx_ticks>>

\* ... and after it: the simulated error, or _update_metrics and the response
handle_request_end ==
    /\ world = "instance"
    /\ si_pc.request = "sleep"
    /\ si_pc' = [si_pc EXCEPT !.request = "idle"]
    /\ \/ /\ si' = [si EXCEPT !.failure_count = si.failure_count + 1]
          /\ response' = "raise"
          /\ UNCHANGED metric_updates
       \/ /\ metric_updates' = metric_updates + 1
          /\ response' = "success"
          /\ UNCHANGED si
    /\ UNCHANGED <<world, ids, menu, moreVars, OtherThreads, repeat_calls, requests,
                   exhaustion_level, affected_instances, rx_ticks>>

\* ResourceExhaustionMonkey.execute up to its loop (resource_type "cpu")
exhaust_begin ==
    /\ world = "instance"
    /\ si_pc.exhaust = "idle"
    /\ IF si.status \in {HEALTHY, DEGRADED}
         THEN /\ affected_instances' = {"i1"}
              /\ si_pc' = [si_pc EXCEPT !.exhaust = "loop"]
         ELSE /\ UNCHANGED affected_instances
              /\ si_pc' = [si_pc EXCEPT !.exhaust = "cleanup"]
    /\ UNCHANGED <<world, ids, menu, moreVars, OtherThreads, si, repeat_calls, requests, response, metric_updates,
                   exhaustion_level, rx_ticks>>

\* ... one iteration of the loop, or its end
exhaust_loop ==
    /\ world = "instance"
    /\ si_pc.exhaust = "loop"
    /\ IF rx_ticks < DurTicks
         THEN /\ rx_ticks' = rx_ticks + 1
              /\ si' = LET slow == [si EXCEPT !.base_response_time = si.base_response_time * 3]
                       IN IF exhaustion_level > 95 THEN set_status(slow, DEGRADED) ELSE slow
              /\ UNCHANGED si_pc
         ELSE /\ si_pc' = [si_pc EXCEPT !.exhaust = "cleanup"]
              /\ UNCHANGED <<si, rx_ticks>>
    /\ UNCHANGED <<world, ids, menu, moreVars, OtherThreads, repeat_calls, requests, response, metric_updates,
                   exhaustion_level, affected_instances>>

\* ResourceExhaustionMonkey.cleanup
exhaust_cleanup ==
    /\ world = "instance"
    /\ si_pc.exhaust = "cleanup"
    /\ si_pc' = [si_pc EXCEPT !.exhaust = "done"]
    /\ IF affected_instances = {}
         THEN UNCHANGED si
         ELSE \E b \in {NewBase(1), NewBase(2)} :
                si' = LET fresh == [si EXCEPT !.base_response_time = b]
                      IN IF si.status = DEGRADED THEN set_status(fresh, HEALTHY) ELSE fresh
    /\ UNCHANGED <<world, ids, menu, moreVars, OtherThreads, repeat_calls, requests, response, metric_updates,
                   exhaustion_level, affected_instances, rx_ticks>>

\* ------------------------------------------------------------ ChaosMonkey
MonkeyServices == {"test-service", "database"}   \* the services of the monkey's world
Excludable == {"database"}      \* the names put into excluded_services
FleetSize(s) == IF s = "database" THEN DatabaseInstances ELSE TestServiceInstances
NoOp == [name |-> "", service |-> "", status |-> ""]

\* Service.get_healthy_instances of service s
FleetHealthy(s) == {i \in DOMAIN fleet[s] : fleet[s][i] \in {HEALTHY, DEGRADED}}

\* variant: the service's guard one off
FleetGuard_mut(s) == Cardinality(FleetHealthy(s)) < fleet_min[s]

\* Service.chaos_terminate_random_instance of service s returns None
FleetGuard(s) == Cardinality(FleetHealthy(s)) <= fleet_min[s]

\* ChaosMonkey._select_target_service: the names random.choice draws from
eligible_services ==
    {s \in monkey_targets : Cardinality(FleetHealthy(s)) > min_healthy_instances}

\* the invocations of the termination callbacks for one termination
Notify(s, i) == [k \in 1..termination_callbacks |-> <<k, s, i>>]

\* _terminate_instance on service s, then, if it returned an instance id,
\* _record_termination and (where the caller has the loop) the callbacks
Attempt(name, s, notify) ==
    IF FleetGuard(s)
      THEN /\ blocked_terminations' = blocked_terminations + 1
           /\ monkey_op' = [name |-> name, service |-> s, status |-> "blocked"]
           /\ UNCHANGED <<fleet, successful_terminations, total_terminations, termination_history,
                          callback_log>>
      ELSE \E i \in FleetHealthy(s) :
             /\ fleet' = [fleet EXCEPT ![s][i] = TERMINATED]
             /\ successful_terminations' = successful_terminations + 1
             /\ total_terminations' = total_terminations + 1
             /\ termination_history' = Append(termination_history, <<s, i>>)
             /\ callback_log' = IF notify THEN callback_log \o Notify(s, i) ELSE callback_log
             /\ monkey_op' = [name |-> name, service |-> s, status |-> "success"]
             /\ UNCHANGED blocked_terminations

NoAttempt(name, st) ==
    /\ monkey_op' = [name |-> name, service |-> "", status |-> st]
    /\ UNCHANGED <<fleet, successful_terminations, blocked_terminations, total_terminations,
                   termination_history, callback_log>>

\* ChaosMonkey.configure with the keys enabled, targets.min_healthy_instances,
\* targets.excluded_services and experiments.instance_termination.probability
configure(enabled, min_healthy, excluded, probability) ==
    /\ world = "monkey"
    /\ chaos_calls = 0
    /\ is_enabled' = enabled
    /\ min_healthy_instances' = min_healthy
    /\ excluded_services' = excluded
    /\ termination_probability' = probability
    /\ UNCHANGED <<world, ids, menu, moreVars, oldVars, alertVars, instVars, restVars, fleet_min, monkeyLog,
                   monkey_targets, termination_callbacks>>

\* ChaosMonkey.register_service
register_service(service_name) ==
    /\ world = "monkey"
    /\ chaos_calls = 0
    /\ IF service_name \notin excluded_services
         THEN monkey_targets' = monkey_targets \cup {service_name}
         ELSE UNCHANGED monkey_targets
    /\ UNCHANGED <<world, ids, menu, moreVars, oldVars, alertVars, instVars, restVars, fleet_min, monkeyLog,
                   is_enabled, excluded_services, min_healthy_instances,
                   termination_probability, termination_callbacks>>

\* ChaosMonkey.unregister_service
unregister_service(service_name) ==
    /\ world = "monkey"
    /\ chaos_calls = 0
    /\ monkey_targets' = monkey_targets \ {service_name}
    /\ UNCHANGED <<world, ids, menu, moreVars, oldVars, alertVars, instVars, restVars, fleet_min, monkeyLog,
                   is_enabled, excluded_services, min_healthy_instances,
                   termination_probability, termination_callbacks>>

\* ChaosMonkey.exclude_service with duration_minutes None
exclude_service(service_name) ==
    /\ world = "monkey"
    /\ chaos_calls = 0
    /\ excluded_services' = excluded_services \cup {service_name}
    /\ monkey_targets' = monkey_targets \ {service_name}
    /\ UNCHANGED <<world, ids, menu, moreVars, oldVars, alertVars, instVars, restVars, fleet_min, monkeyLog,
                   is_enabled, min_healthy_instances, termination_probability,
                   termination_callbacks>>

\* ChaosMonkey.add_termination_callback
add_termination_callback ==
    /\ world = "monkey"
    /\ chaos_calls = 0
    /\ termination_callbacks < MaxCallbacks
    /\ termination_callbacks' = termination_callbacks + 1
    /\ UNCHANGED <<world, ids, menu, moreVars, oldVars, alertVars, instVars, restVars, fleet_min, monkeyLog,
                   is_enabled, monkey_targets, excluded_services, min_healthy_instances,
                   termination_probability>>

\* one iteration of ChaosMonkey._chaos_loop: _is_chaos_time, then _execute_chaos;
\* in_window is the day and hour test, roll is random.random() in percent
TickCore(in_window, roll) ==
    /\ chaos_calls' = chaos_calls + 1
    /\ IF ~is_enabled \/ ~in_window
         THEN NoAttempt("tick", "closed")
         ELSE IF roll > termination_probability
                THEN NoAttempt("tick", "skipped")
                ELSE IF eligible_services = {}
                       THEN NoAttempt("tick", "none")
                       ELSE \E s \in eligible_services : Attempt("tick", s, TRUE)
    /\ UNCHANGED <<world, ids, menu, oldVars, alertVars, instVars, restVars, fleet_min, monkeyCfg>>

\* ... made by the one loop of a started monkey
chaos_tick(in_window, roll) ==
    /\ world \in {"monkey", "pause", "exclude"}
    /\ chaos_calls < MaxChaosCalls
    /\ TickCore(in_window, roll)
    /\ UNCHANGED moreVars

\* ChaosMonkey.start: nothing if running or disabled, else is_running is set
\* and a new _chaos_loop thread is started
ChaosMonkey_start ==
    /\ world = "loop"
    /\ stopper_pc = "idle"
    /\ ~monkey_running
    /\ is_enabled
    /\ \E l \in LoopIds :
         /\ loop_pc[l] = "none"
         /\ \A k \in LoopIds : k < l => loop_pc[k] # "none"
         /\ loop_pc' = [loop_pc EXCEPT ![l] = "ready"]
         /\ chaos_thread' = l
    /\ monkey_running' = TRUE
    /\ ticking' = {}
    /\ UNCHANGED <<world, ids, menu, breakerVars, bulkVars, scaleVars, doctorVars, healthVars,
                   forceVars, oldVars, alertVars, instVars, monkeyVars, pauseVars, lateVars,
                   sys_pc, stop_op, stop_queue, stop_snapshot, monitoring_running, stopper_pc>>

\* ChaosMonkey.stop up to its join: is_running = False
ChaosMonkey_stop ==
    /\ world = "loop"
    /\ stopper_pc = "idle"
    /\ monkey_running' = FALSE
    /\ stopper_pc' = IF chaos_thread # 0 THEN "join" ELSE "idle"
    /\ UNCHANGED <<world, ids, menu, breakerVars, bulkVars, scaleVars, doctorVars, healthVars,
                   forceVars, oldVars, alertVars, instVars, monkeyVars, pauseVars, lateVars,
                   sys_pc, stop_op, stop_queue, stop_snapshot, monitoring_running, loop_pc,
                   chaos_thread, ticking>>

\* ... chaos_thread.join(timeout=5) returns: the thread has ended, or 5 s
\* have passed of the check_interval_seconds (30) it sleeps; a thread that
\* is not asleep reaches its test of is_running within the timeout
ChaosMonkey_join ==
    /\ world = "loop"
    /\ stopper_pc = "join"
    /\ loop_pc[chaos_thread] \in {"sleep", "ended"}
    /\ stopper_pc' = "idle"
    /\ UNCHANGED <<world, ids, menu, breakerVars, bulkVars, scaleVars, doctorVars, healthVars,
                   forceVars, oldVars, auxVars, loop_pc, chaos_thread, ticking>>

\* ChaosMonkey._chaos_loop of thread l: the test of is_running and, if set,
\* one iteration up to its sleep
chaos_loop(l, in_window, roll) ==
    /\ world = "loop"
    /\ loop_pc[l] = "ready"
    /\ IF monkey_running
         THEN /\ chaos_calls < MaxLoopTicks
              /\ TickCore(in_window, roll)
              /\ loop_pc' = [loop_pc EXCEPT ![l] = "sleep"]
              /\ ticking' = ticking \cup {l}
         ELSE /\ loop_pc' = [loop_pc EXCEPT ![l] = "ended"]
              /\ UNCHANGED <<world, ids, menu, oldVars, auxVars, ticking>>
    /\ UNCHANGED <<breakerVars, bulkVars, scaleVars, doctorVars, healthVars, forceVars,
                   chaos_thread, stopper_pc>>

\* ... its time.sleep(check_interval_seconds) ends
chaos_loop_wake(l) ==
    /\ world = "loop"
    /\ loop_pc[l] = "sleep"
    /\ loop_pc' = [loop_pc EXCEPT ![l] = "ready"]
    /\ UNCHANGED <<world, ids, menu, breakerVars, bulkVars, scaleVars, doctorVars, healthVars,
                   forceVars, oldVars, auxVars, chaos_thread, stopper_pc, ticking>>

\* ChaosMonkey.force_chaos
force_chaos(service_name) ==
    /\ world \in {"monkey", "pause", "exclude"}
    /\ chaos_calls < MaxChaosCalls
    /\ chaos_calls' = chaos_calls + 1
    /\ IF ~is_enabled
         THEN NoAttempt("force_chaos", "error")
         ELSE IF service_name # None /\ service_name \notin monkey_targets
                THEN NoAttempt("force_chaos", "error")
                ELSE IF service_name # None
                       THEN Attempt("force_chaos", service_name, TRUE)
                       ELSE IF eligible_services = {}
                              THEN NoAttempt("force_chaos", "error")
                              ELSE \E s \in eligible_services : Attempt("force_chaos", s, TRUE)
    /\ UNCHANGED <<world, ids, menu, moreVars, oldVars, alertVars, instVars, restVars, fleet_min, monkeyCfg>>

\* ChaosMonkey.simulate_outage with instance_count 1 (max_instances_to_kill is
\* 1 by default): one iteration of its loop
simulate_outage(service_name) ==
    /\ world \in {"monkey", "pause", "exclude"}
    /\ chaos_calls < MaxChaosCalls
    /\ chaos_calls' = chaos_calls + 1
    /\ IF ~is_enabled
         THEN NoAttempt("simulate_outage", "error")
         ELSE IF service_name # None
                THEN IF service_name \notin monkey_targets
                       THEN NoAttempt("simulate_outage", "error")
                       ELSE Attempt("simulate_outage", service_name, FALSE)
                ELSE IF eligible_services = {}
                       THEN NoAttempt("simulate_outage", "error")
                       ELSE \E s \in eligible_services : Attempt("simulate_outage", s, FALSE)
    /\ UNCHANGED <<world, ids, menu, moreVars, oldVars, alertVars, instVars, restVars, fleet_min, monkeyCfg>>

\* ChaosMonkey.disable_temporarily(duration_minutes): the flag is cleared and a
\* re_enable thread starts its sleep
disable_temporarily(duration) ==
    /\ world = "pause"
    /\ disable_calls < MaxDisables
    /\ disable_calls' = disable_calls + 1
    /\ is_enabled' = FALSE
    /\ timers' = timers \cup {[fire_at |-> now + duration, was_enabled |-> is_enabled]}
    /\ window_end' = now + duration
    /\ UNCHANGED <<world, ids, menu, moreVars, oldVars, alertVars, instVars, fleet_min, monkeyLog, now, reincludes, sysVars, lateVars,
                   monkey_targets, excluded_services, min_healthy_instances,
                   termination_probability, termination_callbacks>>

\* re_enable after its sleep: self.is_enabled = was_enabled
re_enable(t) ==
    /\ world = "pause"
    /\ t \in timers
    /\ now >= t.fire_at
    /\ is_enabled' = t.was_enabled
    /\ timers' = timers \ {t}
    /\ UNCHANGED <<world, ids, menu, moreVars, oldVars, alertVars, instVars, fleet_min, monkeyLog, now, reincludes, sysVars, lateVars,
                   window_end, disable_calls, monkey_targets, excluded_services,
                   min_healthy_instances, termination_probability, termination_callbacks>>

\* ChaosMonkey.exclude_service(service_name, duration_minutes): the service is
\* excluded and unregistered, and a re_include thread starts its sleep
exclude_service_timed(service_name, duration) ==
    /\ world = "exclude"
    /\ excluded_services' = excluded_services \cup {service_name}
    /\ monkey_targets' = monkey_targets \ {service_name}
    /\ reincludes' = reincludes \cup {[fire_at |-> now + duration, service |-> service_name]}
    /\ UNCHANGED <<world, ids, menu, moreVars, oldVars, alertVars, instVars, fleet_min, monkeyLog, now, timers,
                   window_end, disable_calls, sysVars, lateVars, is_enabled,
                   min_healthy_instances, termination_probability, termination_callbacks>>

\* re_include after its sleep: self.excluded_services.discard(service_name)
re_include(t) ==
    /\ world = "exclude"
    /\ t \in reincludes
    /\ now >= t.fire_at
    /\ excluded_services' = excluded_services \ {t.service}
    /\ reincludes' = reincludes \ {t}
    /\ UNCHANGED <<world, ids, menu, moreVars, oldVars, alertVars, instVars, fleet_min, monkeyLog, now, timers,
                   window_end, disable_calls, sysVars, lateVars, is_enabled, monkey_targets,
                   min_healthy_instances, termination_probability, termination_callbacks>>

\* time passes; a thread whose sleep is over runs before it passes further
advance ==
    /\ world \in {"pause", "exclude", "breaker"}
    /\ now < MaxTime
    /\ \A t \in timers \cup reincludes : t.fire_at > now
    /\ now' = now + 1
    /\ UNCHANGED <<world, ids, menu, moreVars, oldVars, alertVars, instVars, monkeyVars, timers,
                   window_end, disable_calls, reincludes, sysVars, lateVars>>

\* --------------------------------------------------------- CircuitBreaker
CLOSED == "closed"
OPEN == "open"
HALF_OPEN == "half_open"
NoTime == 0 - 1

\* CircuitBreaker._check_state_transition: the state it leaves
check_state_transition ==
    IF /\ breaker_state = OPEN
       /\ last_failure_time # NoTime
       /\ now - last_failure_time >= TimeoutTicks
      THEN HALF_OPEN
      ELSE breaker_state

\* CircuitBreaker.call up to the call of the wrapped function: under the lock,
\* the state check, and the refusal while Open
breaker_call_begin ==
    /\ world = "breaker"
    /\ breaker_pc = "idle"
    /\ breaker_calls < MaxBreakerCalls
    /\ breaker_calls' = breaker_calls + 1
    /\ breaker_state' = check_state_transition
    /\ success_count' = IF check_state_transition # breaker_state THEN 0 ELSE success_count
    /\ succ_streak' = IF check_state_transition # breaker_state THEN 0 ELSE succ_streak
    /\ IF check_state_transition = OPEN
         THEN /\ blocked_requests' = blocked_requests + 1
              /\ breaker_op' = [name |-> "call", outcome |-> "CircuitBreakerOpenException",
                                invoked |-> FALSE]
              /\ UNCHANGED breaker_pc
         ELSE /\ breaker_pc' = "func"
              /\ breaker_op' = [name |-> "call", outcome |-> "", invoked |-> TRUE]
              /\ UNCHANGED blocked_requests
    /\ UNCHANGED <<world, ids, menu, oldVars, auxVars, bulkVars, scaleVars, doctorVars, lastVars, failure_count, last_failure_time,
                   breaker_resets, fail_streak>>

\* variant: a success leaves failure_count as it is
record_success_mut ==
    /\ failure_count' = (IF breaker_state = HALF_OPEN /\ success_count + 1 >= SuccessThreshold
                           THEN 0 ELSE failure_count)
    /\ IF breaker_state = HALF_OPEN
         THEN IF success_count + 1 >= SuccessThreshold
                THEN breaker_state' = CLOSED /\ success_count' = 0
                ELSE success_count' = success_count + 1 /\ UNCHANGED breaker_state
         ELSE UNCHANGED <<breaker_state, success_count>>
    /\ UNCHANGED last_failure_time

\* CircuitBreaker._record_success, with _transition_to_closed
record_success ==
    /\ failure_count' = 0
    /\ IF breaker_state = HALF_OPEN
         THEN IF success_count + 1 >= SuccessThreshold
                THEN breaker_state' = CLOSED /\ success_count' = 0
                ELSE success_count' = success_count + 1 /\ UNCHANGED breaker_state
         ELSE UNCHANGED <<breaker_state, success_count>>
    /\ UNCHANGED last_failure_time

\* CircuitBreaker._record_failure, with _transition_to_open
record_failure ==
    /\ failure_count' = failure_count + 1
    /\ success_count' = 0
    /\ last_failure_time' = now
    /\ breaker_state' =
          IF \/ breaker_state = CLOSED /\ failure_count + 1 >= FailureThreshold
             \/ breaker_state = HALF_OPEN
            THEN OPEN
            ELSE breaker_state

\* the rest of CircuitBreaker.call: the wrapped function returns (ok) or raises
\* an expected exception, and the lock is released
breaker_call_end(ok) ==
    /\ world = "breaker"
    /\ breaker_pc = "func"
    /\ breaker_pc' = "idle"
    /\ IF ok
         THEN /\ record_success
              /\ fail_streak' = 0
              /\ succ_streak' = succ_streak + 1
         ELSE /\ record_failure
              /\ fail_streak' = fail_streak + 1
              /\ succ_streak' = 0
    /\ breaker_op' = [name |-> "call", outcome |-> IF ok THEN "returned" ELSE "raised",
                      invoked |-> TRUE]
    /\ UNCHANGED <<world, ids, menu, oldVars, auxVars, bulkVars, scaleVars, doctorVars, lastVars, blocked_requests, breaker_calls,
                   breaker_resets>>

\* CircuitBreaker.reset, which waits for the lock
breaker_reset ==
    /\ world = "breaker"
    /\ breaker_pc = "idle"
    /\ breaker_resets < MaxResets
    /\ breaker_resets' = breaker_resets + 1
    /\ breaker_state' = CLOSED
    /\ failure_count' = 0
    /\ success_count' = 0
    /\ last_failure_time' = NoTime
    /\ fail_streak' = 0
    /\ succ_streak' = 0
    /\ breaker_op' = [name |-> "reset", outcome |-> "", invoked |-> FALSE]
    /\ UNCHANGED <<world, ids, menu, oldVars, auxVars, bulkVars, scaleVars, doctorVars, lastVars, blocked_requests, breaker_pc,
                   breaker_calls>>

\* CircuitBreaker.__init__
InitBreaker ==
    /\ breaker_state = CLOSED
    /\ failure_count = 0
    /\ success_count = 0
    /\ last_failure_time = NoTime
    /\ blocked_requests = 0
    /\ breaker_pc = "idle"
    /\ breaker_op = [name |-> "", outcome |-> "", invoked |-> FALSE]
    /\ breaker_calls = 0
    /\ breaker_resets = 0
    /\ fail_streak = 0
    /\ succ_streak = 0

\* ---------------------------------------------------------------- Bulkhead
\* the threads that call Bulkhead.execute: one more than there are permits
BulkheadCallers == 1..(MaxConcurrentCalls + 1)

\* variant: the permit is taken also when none is left
bulkhead_acquire_mut(t) ==
    /\ world = "bulkhead"
    /\ bulkhead_pc[t] = "idle"
    /\ total_calls < MaxBulkheadCalls
    /\ total_calls' = total_calls + 1
    /\ semaphore' = semaphore - 1
    /\ bulkhead_pc' = [bulkhead_pc EXCEPT ![t] = "acquired"]
    /\ bulkhead_op' = [caller |-> t, outcome |-> "acquired"]
    /\ UNCHANGED rejected_calls
    /\ UNCHANGED <<world, ids, menu, oldVars, auxVars, breakerVars, scaleVars, doctorVars, lastVars, current_calls,
                   successful_calls, failed_calls>>

\* Bulkhead.execute up to the raise of BulkheadFullException: total_calls, and
\* semaphore.acquire(blocking=False)
bulkhead_acquire(t) ==
    /\ world = "bulkhead"
    /\ bulkhead_pc[t] = "idle"
    /\ total_calls < MaxBulkheadCalls
    /\ total_calls' = total_calls + 1
    /\ IF semaphore = 0
         THEN /\ rejected_calls' = rejected_calls + 1
              /\ bulkhead_op' = [caller |-> t, outcome |-> "BulkheadFullException"]
              /\ UNCHANGED <<semaphore, bulkhead_pc>>
         ELSE /\ semaphore' = semaphore - 1
              /\ bulkhead_pc' = [bulkhead_pc EXCEPT ![t] = "acquired"]
              /\ bulkhead_op' = [caller |-> t, outcome |-> "acquired"]
              /\ UNCHANGED rejected_calls
    /\ UNCHANGED <<world, ids, menu, oldVars, auxVars, breakerVars, scaleVars, doctorVars, lastVars, current_calls,
                   successful_calls, failed_calls>>

\* with self.lock: self.current_calls += 1, then the wrapped function starts
bulkhead_begin(t) ==
    /\ world = "bulkhead"
    /\ bulkhead_pc[t] = "acquired"
    /\ current_calls' = current_calls + 1
    /\ bulkhead_pc' = [bulkhead_pc EXCEPT ![t] = "func"]
    /\ UNCHANGED <<world, ids, menu, oldVars, auxVars, breakerVars, scaleVars, doctorVars, lastVars, semaphore, total_calls,
                   rejected_calls, successful_calls, failed_calls, bulkhead_op>>

\* the wrapped function returns (ok) or raises, also by the timeout, which
\* waits for the function to end: successful_calls or failed_calls
bulkhead_end(t, ok) ==
    /\ world = "bulkhead"
    /\ bulkhead_pc[t] = "func"
    /\ successful_calls' = successful_calls + (IF ok THEN 1 ELSE 0)
    /\ failed_calls' = failed_calls + (IF ok THEN 0 ELSE 1)
    /\ bulkhead_pc' = [bulkhead_pc EXCEPT ![t] = "finally"]
    /\ UNCHANGED <<world, ids, menu, oldVars, auxVars, breakerVars, scaleVars, doctorVars, lastVars, semaphore, current_calls,
                   total_calls, rejected_calls, bulkhead_op>>

\* the finally clause: current_calls -= 1 under the lock
bulkhead_finally(t) ==
    /\ world = "bulkhead"
    /\ bulkhead_pc[t] = "finally"
    /\ current_calls' = current_calls - 1
    /\ bulkhead_pc' = [bulkhead_pc EXCEPT ![t] = "release"]
    /\ UNCHANGED <<world, ids, menu, oldVars, auxVars, breakerVars, scaleVars, doctorVars, lastVars, semaphore, total_calls,
                   rejected_calls, successful_calls, failed_calls, bulkhead_op>>

\* the finally clause: self.semaphore.release()
bulkhead_release(t) ==
    /\ world = "bulkhead"
    /\ bulkhead_pc[t] = "release"
    /\ semaphore' = semaphore + 1
    /\ bulkhead_pc' = [bulkhead_pc EXCEPT ![t] = "idle"]
    /\ UNCHANGED <<world, ids, menu, oldVars, auxVars, breakerVars, scaleVars, doctorVars, lastVars, current_calls, total_calls,
                   rejected_calls, successful_calls, failed_calls, bulkhead_op>>

\* Bulkhead.__init__
InitBulkhead ==
    /\ semaphore = MaxConcurrentCalls
    /\ current_calls = 0
    /\ total_calls = 0
    /\ rejected_calls = 0
    /\ successful_calls = 0
    /\ failed_calls = 0
    /\ bulkhead_pc = [t \in BulkheadCallers |-> "idle"]
    /\ bulkhead_op = [caller |-> 0, outcome |-> ""]

PatternsNext ==
    \/ \E t \in BulkheadCallers :
          \/ bulkhead_acquire(t)
          \/ bulkhead_begin(t)
          \/ \E ok \in BOOLEAN : bulkhead_end(t, ok)
          \/ bulkhead_finally(t)
          \/ bulkhead_release(t)
    \/ breaker_call_begin
    \/ \E ok \in BOOLEAN : breaker_call_end(ok)
    \/ breaker_reset
    \/ advance

\* ------------------------------------------------ ChaosEngineeringSystem
\* stop() up to the lock of ExperimentRunner.stop_all_experiments, or
\* emergency_stop() up to the lock of ExperimentRunner.emergency_stop: the loop
\* is about to visit the experiments now in active_experiments
system_stop(emergency) ==
    /\ world = "system"
    /\ sys_pc \in (IF emergency THEN {"running"} ELSE {"running", "stop"})
    /\ lockpc = "free"
    /\ lockpc' = "all"
    /\ sys_pc' = IF emergency THEN "emergency_runner" ELSE "runner"
    /\ stop_op' = IF emergency THEN "emergency_stop" ELSE "stop_all_experiments"
    /\ stop_queue' = active_experiments
    /\ stop_snapshot' = stop_snapshot \cup active_experiments
    /\ api' = NoApi
    /\ UNCHANGED <<world, ids, menu, moreVars, alertVars, instVars, monkeyVars, pauseVars, lateVars, monkey_running, monitoring_running, svcVars, callVars,
                   flagVars, active_experiments, created, history, lockid, expVars>>

\* variant: the loop ends after the first experiment it stops
stop_all_step_mut ==
    /\ world = "system"
    /\ lockpc = "all"
    /\ IF stop_queue = {}
         THEN /\ lockpc' = "free"
              /\ stop_op' = ""
              /\ sys_pc' = IF sys_pc = "emergency_runner" THEN "emergency_monkey" ELSE "monkey"
              /\ api' = [op |-> stop_op, id |-> None, result |-> None]
              /\ UNCHANGED <<stop_queue, should_stop, lockid>>
         ELSE LET e == CHOOSE x \in stop_queue : \A y \in stop_queue : IdRank(x) <= IdRank(y) IN
              /\ stop_queue' = {}
              /\ should_stop' = [should_stop EXCEPT ![e] = TRUE]
              /\ IF pc[e] # "idle"
                   THEN lockpc' = "join" /\ lockid' = e
                   ELSE UNCHANGED <<lockpc, lockid>>
              /\ api' = NoApi
              /\ UNCHANGED <<stop_op, sys_pc>>
    /\ UNCHANGED <<world, ids, menu, moreVars, alertVars, instVars, monkeyVars, pauseVars, lateVars, stop_snapshot, monkey_running, monitoring_running, svcVars,
                   callVars, flagVars, active_experiments, created, history, cfg, status, pc,
                   ticks, error_message, original, killed, exec_count, raised, cleanup_count,
                   pre_base>>

\* one pass of the loop of stop_all_experiments / emergency_stop, under the
\* runner's lock: ChaosExperiment.stop() up to its join; after the last
\* experiment the call returns
stop_all_step ==
    /\ world = "system"
    /\ lockpc = "all"
    /\ IF stop_queue = {}
         THEN /\ lockpc' = "free"
              /\ stop_op' = ""
              /\ sys_pc' = IF sys_pc = "emergency_runner" THEN "emergency_monkey" ELSE "monkey"
              /\ api' = [op |-> stop_op, id |-> None, result |-> None]
              /\ UNCHANGED <<stop_queue, should_stop, lockid>>
         ELSE LET e == CHOOSE x \in stop_queue : \A y \in stop_queue : IdRank(x) <= IdRank(y) IN
              /\ stop_queue' = stop_queue \ {e}
              /\ should_stop' = [should_stop EXCEPT ![e] = TRUE]
              /\ IF pc[e] # "idle"
                   THEN lockpc' = "join" /\ lockid' = e
                   ELSE UNCHANGED <<lockpc, lockid>>
              /\ api' = NoApi
              /\ UNCHANGED <<stop_op, sys_pc>>
    /\ UNCHANGED <<world, ids, menu, moreVars, alertVars, instVars, monkeyVars, pauseVars, lateVars, stop_snapshot, monkey_running, monitoring_running, svcVars,
                   callVars, flagVars, active_experiments, created, history, cfg, status, pc,
                   ticks, error_message, original, killed, exec_count, raised, cleanup_count,
                   pre_base>>

\* variant: the monkey's loop is not told to stop
monkey_stop_mut ==
    /\ world = "system"
    /\ sys_pc \in {"emergency_monkey", "monkey"}
    /\ monkey_running' = monkey_running
    /\ sys_pc' = IF sys_pc = "emergency_monkey" THEN "stop" ELSE "monitoring"
    /\ api' = NoApi
    /\ UNCHANGED <<world, ids, menu, moreVars, alertVars, instVars, monkeyVars, pauseVars, lateVars, stop_op, stop_queue, stop_snapshot, monitoring_running,
                   svcVars, callVars, flagVars, regVars, expVars>>

\* self.chaos_monkey.stop(): is_running = False, then the bounded join
monkey_stop ==
    /\ world = "system"
    /\ sys_pc \in {"emergency_monkey", "monkey"}
    /\ monkey_running' = FALSE
    /\ sys_pc' = IF sys_pc = "emergency_monkey" THEN "stop" ELSE "monitoring"
    /\ api' = NoApi
    /\ UNCHANGED <<world, ids, menu, moreVars, alertVars, instVars, monkeyVars, pauseVars, lateVars, stop_op, stop_queue, stop_snapshot, monitoring_running,
                   svcVars, callVars, flagVars, regVars, expVars>>

\* self.monitoring.stop_monitoring()
stop_monitoring ==
    /\ world = "system"
    /\ sys_pc = "monitoring"
    /\ monitoring_running' = FALSE
    /\ sys_pc' = "shutdown"
    /\ api' = NoApi
    /\ UNCHANGED <<world, ids, menu, moreVars, alertVars, instVars, monkeyVars, pauseVars, lateVars, stop_op, stop_queue, stop_snapshot, monkey_running,
                   svcVars, callVars, flagVars, regVars, expVars>>

\* self.load_balancer.shutdown(): Service.shutdown terminates every instance
shutdown ==
    /\ world = "system"
    /\ sys_pc = "shutdown"
    /\ istatus' = [i \in Inst |-> IF i \in members THEN TERMINATED ELSE istatus[i]]
    /\ sys_pc' = "stopped"
    /\ api' = NoApi
    /\ UNCHANGED <<world, ids, menu, moreVars, alertVars, instVars, monkeyVars, pauseVars, lateVars, stop_op, stop_queue, stop_snapshot, monkey_running,
                   monitoring_running, members, ibase, min_instances, callVars, flagVars,
                   regVars, expVars>>

\* ------------------------------------------------------------ specification
Pad(f, dom, d) == [i \in Inst |-> IF i \in dom THEN f[i] ELSE d]

InitExperiments ==
    /\ active_experiments = {}
    /\ created = {}
    /\ history = [e \in ExpIds |-> None]
    /\ lockpc = "free"
    /\ lockid = None
    /\ api = NoApi
    /\ cfg = [e \in ExpIds |-> NoCfg]
    /\ status = [e \in ExpIds |-> PENDING]
    /\ should_stop = [e \in ExpIds |-> FALSE]
    /\ pc = [e \in ExpIds |-> "idle"]
    /\ ticks = [e \in ExpIds |-> 0]
    /\ error_message = [e \in ExpIds |-> None]
    /\ original = [e \in ExpIds |-> <<>>]
    /\ killed = [e \in ExpIds |-> {}]
    /\ exec_count = [e \in ExpIds |-> 0]
    /\ raised = [e \in ExpIds |-> FALSE]
    /\ cleanup_count = [e \in ExpIds |-> 0]
    /\ pre_base = [e \in ExpIds |-> <<>>]

InitCalls ==
    /\ calls = 0
    /\ succ = 0
    /\ n0 = HealthyCount
    /\ last_return = 0

\* world "service": a Service in any condition its background loop can leave it in
InitService ==
    /\ world = "service"
    /\ \E n \in 1..MaxInst :
         /\ members = 1..n
         /\ \E st \in [1..n -> ServiceStatus] : istatus = Pad(st, 1..n, None)
         /\ ibase = [i \in Inst |-> IF i <= n THEN NewBase(i) ELSE 0]
    /\ min_instances \in 0..MaxMin
    /\ safety_checks_enabled = TRUE
    /\ dry_run_mode = FALSE
    /\ require_confirmation = TRUE
    /\ max_concurrent_experiments = 1
    /\ menu = {}

\* world "race": a Service with its default minimum, all instances healthy, and
\* two threads about to call its chaos termination
InitRace ==
    /\ world = "race"
    /\ members = 1..TestServiceInstances
    /\ istatus = [i \in Inst |-> IF i <= TestServiceInstances THEN HEALTHY ELSE None]
    /\ ibase = [i \in Inst |-> IF i <= TestServiceInstances THEN NewBase(i) ELSE 0]
    /\ min_instances = DefaultMinInstances
    /\ safety_checks_enabled = TRUE
    /\ dry_run_mode = FALSE
    /\ require_confirmation = TRUE
    /\ max_concurrent_experiments = 1
    /\ menu = {}

InitFleet(counts) ==
    /\ members = 1..InitialInstances
    /\ \E h \in counts :
         istatus = [i \in Inst |-> IF i <= h THEN HEALTHY
                                   ELSE IF i <= InitialInstances THEN TERMINATED ELSE None]
    /\ ibase = [i \in Inst |-> IF i <= InitialInstances THEN NewBase(i) ELSE 0]
    /\ min_instances = MinInstances

\* world "traffic": a Service in any condition, its counters at zero, and two
\* threads about to call handle_request
InitTraffic ==
    /\ world = "traffic"
    /\ InitFleet(0..InitialInstances)
    /\ safety_checks_enabled = TRUE
    /\ dry_run_mode = FALSE
    /\ require_confirmation = TRUE
    /\ max_concurrent_experiments = 1
    /\ menu = {}

\* world "runner": ExperimentRunner.__init__
InitRunner(counts, types) ==
    /\ world = "runner"
    /\ menu = types
    /\ InitFleet(counts)
    /\ safety_checks_enabled = TRUE
    /\ dry_run_mode = FALSE
    /\ require_confirmation = TRUE
    /\ max_concurrent_experiments \in {1, MaxCap}

ManagerTypes == {LATENCY, TERMINATION}

\* world "manager": ChaosExperimentManager.__init__ and the two attributes
\* SimpleChaosSystem copies from its configuration
InitManager(counts, types) ==
    /\ world = "manager"
    /\ menu = types
    /\ InitFleet(counts)
    /\ safety_checks_enabled \in BOOLEAN
    /\ dry_run_mode = FALSE
    /\ require_confirmation = TRUE
    /\ max_concurrent_experiments \in {1, MaxCap}

\* world "callers": a ChaosExperimentManager whose create_and_run_experiment is
\* called from two threads
InitCallers ==
    /\ world = "callers"
    /\ menu = {TERMINATION}
    /\ InitFleet({InitialInstances})
    /\ safety_checks_enabled \in BOOLEAN
    /\ dry_run_mode = FALSE
    /\ require_confirmation = TRUE
    /\ max_concurrent_experiments \in {1, MaxCap}

\* world "system": a started ChaosEngineeringSystem with the default safety
\* configuration (_initialize_chaos_components)
InitSystem ==
    /\ world = "system"
    /\ menu = {CHAOS_KONG}
    /\ InitFleet({InitialInstances})
    /\ safety_checks_enabled = TRUE
    /\ dry_run_mode = FALSE
    /\ require_confirmation = TRUE
    /\ max_concurrent_experiments = MaxCap

\* AlertManager.__init__
InitAlerts ==
    /\ alerts = [id \in AlertIds |-> "absent"]
    /\ alert_callbacks = 0
    /\ alert_objects = [id \in AlertIds |-> 0]
    /\ notified = [id \in AlertIds |-> 0]
    /\ check_calls = 0
    /\ trail = [id \in AlertIds |-> <<>>]

AlertsIdle == InitAlerts

\* ServiceInstance.__init__ (recovery_time 0 for None, error_probability in per
\* mille); an experiment
\* created at the default level or at full exhaustion
InitInstance ==
    /\ si = [status |-> HEALTHY, start_time |-> 0, recovery_time |-> 0, failure_count |-> 0,
             base_response_time |-> NewBase(1), error_probability |-> 5]
    /\ si_pc = [request |-> "idle", health |-> "idle", restart |-> "idle", exhaust |-> "idle"]
    /\ repeat_calls = 0
    /\ requests = 0
    /\ response = "none"
    /\ metric_updates = 0
    /\ affected_instances = {}
    /\ rx_ticks = 0

InstanceIdle == InitInstance /\ exhaustion_level = 90

\* ChaosMonkey.__init__, and its two services as constructed
InitMonkey ==
    /\ fleet = [s \in MonkeyServices |-> [i \in 1..FleetSize(s) |-> HEALTHY]]
    /\ is_enabled = FALSE
    /\ monkey_targets = {}
    /\ excluded_services = {}
    /\ min_healthy_instances = 1
    /\ termination_probability = DefaultProbability
    /\ successful_terminations = 0
    /\ blocked_terminations = 0
    /\ total_terminations = 0
    /\ termination_history = <<>>
    /\ termination_callbacks = 0
    /\ callback_log = <<>>
    /\ chaos_calls = 0
    /\ monkey_op = NoOp

MonkeyIdle == InitMonkey /\ fleet_min = [s \in MonkeyServices |-> DefaultMinInstances]

\* the worlds without a front end: no experiment is ever created in them
NoFrontEnd ==
    /\ menu = {}
    /\ members = {}
    /\ istatus = [i \in Inst |-> None]
    /\ ibase = [i \in Inst |-> 0]
    /\ min_instances = 0
    /\ safety_checks_enabled = TRUE
    /\ dry_run_mode = FALSE
    /\ require_confirmation = TRUE
    /\ max_concurrent_experiments = 1

\* a monkey enabled by configure with probability 1.0, both services registered
InitPaused ==
    /\ fleet = [s \in MonkeyServices |-> [i \in 1..FleetSize(s) |-> HEALTHY]]
    /\ is_enabled = TRUE
    /\ monkey_targets = MonkeyServices
    /\ excluded_services = {}
    /\ min_healthy_instances = 1
    /\ termination_probability = 100
    /\ successful_terminations = 0
    /\ blocked_terminations = 0
    /\ total_terminations = 0
    /\ termination_history = <<>>
    /\ termination_callbacks = 0
    /\ callback_log = <<>>
    /\ chaos_calls = 0
    /\ monkey_op = NoOp

\* no disable_temporarily call made
InitPause ==
    /\ now = 0
    /\ timers = {}
    /\ window_end = 0
    /\ disable_calls = 0
    /\ reincludes = {}

\* the components outside the experiment front ends, as constructed; w is the
\* world of the behaviour
InitAux(w) ==
    /\ IF w = "alerts" THEN InitAlerts ELSE AlertsIdle
    /\ IF w = "instance" THEN InitInstance /\ exhaustion_level \in {90, 100} ELSE InstanceIdle
    /\ IF w = "monkey"
         THEN InitMonkey /\ \E m \in {1, DefaultMinInstances} :
                              fleet_min = [s \in MonkeyServices |-> m]
         ELSE IF w \in {"pause", "exclude"}
                THEN InitPaused /\ fleet_min = [s \in MonkeyServices |-> DefaultMinInstances]
                ELSE MonkeyIdle
    /\ InitPause
    /\ sys_pc = "running"
    /\ stop_op = ""
    /\ stop_queue = {}
    /\ stop_snapshot = {}
    /\ monkey_running = (w = "system")
    /\ monitoring_running = (w = "system")
    /\ chaos_pc = [t \in 1..2 |-> "idle"]
    /\ chaos_seen = [t \in 1..2 |-> {}]
    /\ svc_req = [t \in 1..2 |-> [pc |-> "idle", at |-> 0, loaded |-> 0]]
    /\ request_count = 0
    /\ successful_requests = 0
    /\ error_count = 0
    /\ service_calls = 0
    /\ fired = [e \in ExpIds |-> <<>>]
    /\ successful_experiments = 0
    /\ failed_experiments = 0
    /\ create_req = [t \in 1..2 |-> NoRequest]
    /\ InitBreaker
    /\ InitBulkhead
    /\ max_instances = MaxInstances
    /\ scale_calls = 0
    /\ doctor_pc = "idle"
    /\ doctor_queue = {}
    /\ scan_count = 0
    /\ doctor_before = FleetNow
    /\ svc_lock = 0
    /\ restart_tasks = [i \in Inst |-> 0]
    /\ shut_down = FALSE
    /\ restart_count = [i \in Inst |-> 0]
    /\ term_count = [i \in Inst |-> 0]
    /\ noop_tasks = {}
    /\ force_pc = [c \in ForceCallers |-> "idle"]
    /\ force_old = [c \in ForceCallers |-> <<TRUE, TRUE>>]
    /\ force_id = [c \in ForceCallers |-> None]
    /\ loop_pc = [l \in LoopIds |-> "none"]
    /\ chaos_thread = 0
    /\ stopper_pc = "idle"
    /\ ticking = {}

InitOther ==
    /\ NoFrontEnd
    /\ \E w \in {"alerts", "instance", "monkey", "pause", "exclude"} : world = w /\ InitAux(w)

\* world "loop": a configured ChaosMonkey, not yet started, and the client
\* that starts and stops it
InitLoop ==
    /\ NoFrontEnd
    /\ world = "loop"
    /\ InitAux("pause")
    /\ ids = {"e1"}
    /\ InitExperiments
    /\ InitCalls

\* An ExperimentRunner with its default safety mode, and two threads of its
\* client
InitForce ==
    /\ InitRunner(0..InitialInstances, RunnerTypes)
    /\ InitAux("")
    /\ ids = {"e1", "e2"}
    /\ InitExperiments
    /\ InitCalls

\* world "health": a Service as its constructor leaves it, its health-check
\* loop started
InitHealth ==
    /\ world = "health"
    /\ menu = {}
    /\ members = 1..InitialInstances
    /\ istatus = [i \in Inst |-> IF i <= InitialInstances THEN HEALTHY ELSE None]
    /\ ibase = [i \in Inst |-> IF i <= InitialInstances THEN NewBase(i) ELSE 0]
    /\ min_instances = MinInstances
    /\ safety_checks_enabled = TRUE
    /\ dry_run_mode = FALSE
    /\ require_confirmation = TRUE
    /\ max_concurrent_experiments = 1
    /\ InitAux("")
    /\ ids = {"e1"}
    /\ InitExperiments
    /\ InitCalls

\* world "doctor": a Service in any condition and a DoctorMonkey about to start
InitDoctor ==
    /\ world = "doctor"
    /\ menu = {}
    /\ members = 1..InitialInstances
    /\ \E st \in [1..InitialInstances -> ServiceStatus] :
          istatus = Pad(st, 1..InitialInstances, None)
    /\ ibase = [i \in Inst |-> IF i <= InitialInstances THEN NewBase(i) ELSE 0]
    /\ min_instances = MinInstances
    /\ safety_checks_enabled = TRUE
    /\ dry_run_mode = FALSE
    /\ require_confirmation = TRUE
    /\ max_concurrent_experiments = 1
    /\ InitAux("")
    /\ ids = {"e1"}
    /\ InitExperiments
    /\ InitCalls

\* world "scale": a Service with up to max_instances instances, some of them
\* terminated, before a round of its health-check loop
InitScale ==
    /\ world = "scale"
    /\ menu = {}
    /\ \E n \in 1..MaxInstances :
         /\ members = 1..n
         /\ \E st \in [1..n -> {HEALTHY, TERMINATED}] : istatus = Pad(st, 1..n, None)
         /\ ibase = [i \in Inst |-> IF i <= n THEN NewBase(i) ELSE 0]
    /\ min_instances \in 1..MaxMin
    /\ safety_checks_enabled = TRUE
    /\ dry_run_mode = FALSE
    /\ require_confirmation = TRUE
    /\ max_concurrent_experiments = 1
    /\ InitAux("")
    /\ ids = {"e1"}
    /\ InitExperiments
    /\ InitCalls

\* One experiment at a time, of any type, on a fleet in any condition: the life
\* of an experiment under every order of the front end's calls on it
Init ==
    /\ \/ /\ \/ InitService
             \/ InitRace
             \/ InitTraffic
             \/ InitCallers
             \/ InitRunner(0..InitialInstances, RunnerTypes)
             \/ InitManager(0..InitialInstances, ManagerTypes)
          /\ InitAux("")
       \/ InitSystem /\ InitAux("system")
       \/ InitOther
    /\ ids = {"e1"}
    /\ InitExperiments
    /\ InitCalls

\* Two experiments on a healthy fleet: zone/region-wide ones under the runner,
\* terminations under the manager
InitAdmission ==
    /\ \/ /\ \/ InitService
             \/ InitRace
             \/ InitTraffic
             \/ InitCallers
             \/ InitRunner({InitialInstances}, Destructive)
             \/ InitManager({InitialInstances}, {TERMINATION})
          /\ InitAux("")
       \/ InitSystem /\ InitAux("system")
       \/ InitOther
    /\ ids = IF world = "system" THEN {"e1"} ELSE {"e1", "e2"}
    /\ InitExperiments
    /\ InitCalls

\* An ExperimentRunner with two LatencyMonkey experiments to create, on a
\* healthy fleet
InitLatency ==
    /\ InitRunner({InitialInstances}, {NETWORK_LATENCY})
    /\ InitAux("")
    /\ ids = {"e1", "e2"}
    /\ InitExperiments
    /\ InitCalls

\* Two experiments under a ChaosEngineeringSystem that is stopped
InitShutdown ==
    /\ \/ /\ \/ InitService
             \/ InitRace
             \/ InitTraffic
             \/ InitCallers
             \/ InitRunner(0..InitialInstances, RunnerTypes)
             \/ InitManager(0..InitialInstances, ManagerTypes)
          /\ InitAux("")
       \/ InitSystem /\ InitAux("system")
       \/ InitOther
    /\ ids = IF world = "system" THEN {"e1", "e2"} ELSE {"e1"}
    /\ InitExperiments
    /\ InitCalls

ThreadNext ==
    \E e \in ExpIds :
        \/ execute_begin(e)
        \/ execute_loop(e)
        \/ run_check(e)
        \/ run_completed(e)
        \/ run_except(e)
        \/ run_finally(e)
        \/ monitor_experiment(e)

RunnerNext ==
    \/ \E a, b, c \in BOOLEAN : set_safety_mode(a, b, c)
    \/ \E ty \in RunnerTypes, t \in {"svc", "ghost"}, d \in {DurTicks} :
          create_experiment(ty, t, d)
    \/ \E e \in ExpIds : start_experiment(e)
    \/ \E e \in ExpIds : force_experiment(e)
    \/ \E e \in ExpIds : stop_experiment(e)
    \/ stop_join

ManagerNext ==
    \/ \E t \in ManagerTypes, tg \in {"svc", "ghost", None}, d \in {DurTicks} :
          create_and_run_experiment(t, tg, d)
    \/ \E e \in ExpIds : Manager_stop_experiment(e)
    \/ stop_mark
    \/ \E c \in 1..2 :
          \/ \E t \in ManagerTypes, tg \in {"svc", "ghost", None}, d \in {DurTicks} :
                create_and_run_check(c, t, tg, d)
          \/ create_and_run_register(c)

AlertsNext ==
    \/ add_alert_callback
    \/ \E m \in MetricNames, s \in target_services, i \in InstanceIds :
          \E v \in MetricValues(m) : check_metric(m, v, s, i)

InstanceNext ==
    \/ terminate_call
    \/ restart_begin
    \/ restart_end
    \/ health_check_begin
    \/ health_check_degrade
    \/ health_check_test
    \/ health_check_recover
    \/ handle_request_begin
    \/ handle_request_end
    \/ exhaust_begin
    \/ exhaust_loop
    \/ exhaust_cleanup

MonkeyNext ==
    \/ \E m \in 1..TestServiceInstances, x \in SUBSET Excludable, p \in {DefaultProbability, 100} :
          configure(TRUE, m, x, p)
    \/ \E s \in MonkeyServices : register_service(s)
    \/ \E s \in MonkeyServices : unregister_service(s)
    \/ \E s \in Excludable : exclude_service(s)
    \/ add_termination_callback
    \/ \E w \in BOOLEAN, r \in {0, 99} : chaos_tick(w, r)
    \/ \E s \in MonkeyServices \cup {None} : force_chaos(s)
    \/ \E s \in MonkeyServices \cup {None} : simulate_outage(s)
    \/ disable_temporarily(DisableTicks)
    \/ \E t \in timers : re_enable(t)
    \/ \E s \in MonkeyServices : exclude_service_timed(s, DisableTicks)
    \/ \E t \in reincludes : re_include(t)
    \/ advance

SystemNext ==
    \/ \E emergency \in BOOLEAN : system_stop(emergency)
    \/ stop_all_step
    \/ monkey_stop
    \/ stop_monitoring
    \/ shutdown

Next ==
    \/ chaos_terminate_random_instance
    \/ \E t \in 1..2 : chaos_terminate_read(t) \/ chaos_terminate_kill(t)
    \/ \E t \in 1..2 : (\E ok \in BOOLEAN : service_request_begin(t, ok)) \/ service_request_count(t)
    \/ ThreadNext
    \/ RunnerNext
    \/ ManagerNext
    \/ AlertsNext
    \/ InstanceNext
    \/ MonkeyNext
    \/ SystemNext

Spec == Init /\ [][Next]_vars

SpecAdmission == InitAdmission /\ [][Next]_vars

\* A client that creates and starts latency experiments and lets them run to
\* their end; with the safety checks on, no started experiment raises
LatencyNext ==
    \/ \E e \in ExpIds :
          \/ execute_begin(e)
          \/ execute_loop(e)
          \/ run_check(e)
          \/ run_completed(e)
          \/ run_finally(e)
          \/ monitor_experiment(e)
    \/ \E t \in {"svc", "ghost"}, d \in {DurTicks} : create_experiment(NETWORK_LATENCY, t, d)
    \/ \E e \in ExpIds : start_experiment(e)

SpecLatency == InitLatency /\ [][LatencyNext]_vars

SpecShutdown == InitShutdown /\ [][Next]_vars

\* The resilience patterns of core/patterns.py, each on its own
InitPatterns ==
    /\ NoFrontEnd
    /\ \E w \in {"breaker", "bulkhead"} : world = w /\ InitAux(w)
    /\ ids = {"e1"}
    /\ InitExperiments
    /\ InitCalls

SpecPatterns == InitPatterns /\ [][PatternsNext]_vars

\* the CPU usages a round may find: low or high on each instance
ScaleNext ==
    \E cpu \in [Inst -> {20, 90}] : auto_scale_if_needed(cpu)

SpecScale == InitScale /\ [][ScaleNext]_vars

DoctorNext ==
    \/ doctor_start
    \/ doctor_loop
    \/ \E fail, recover \in BOOLEAN : doctor_evaluate(fail, recover)

SpecDoctor == InitDoctor /\ [][DoctorNext]_vars

\* Threads that call force_experiment and start_experiment on the
\* experiments of one runner, up to the moment the started experiments'
\* threads are scheduled
ForceNext ==
    \/ \E ty \in RunnerTypes, t \in {"svc", "ghost"}, d \in {DurTicks} :
          create_experiment(ty, t, d)
    \/ \E e \in ExpIds : start_experiment(e)
    \/ \E c \in ForceCallers, e \in ExpIds : force_bypass(c, e)
    \/ \E c \in ForceCallers : force_start(c)
    \/ \E c \in ForceCallers : force_restore(c)

SpecForce == InitForce /\ [][ForceNext]_vars

\* A client's start() and stop() calls, and the loops they start
LoopNext ==
    \/ ChaosMonkey_start
    \/ ChaosMonkey_stop
    \/ ChaosMonkey_join
    \/ \E l \in LoopIds, w \in BOOLEAN, r \in {0, 99} : chaos_loop(l, w, r)
    \/ \E l \in LoopIds : chaos_loop_wake(l)

SpecLoop == InitLoop /\ [][LoopNext]_vars

\* A Service with its health-check loop, its auto-restart tasks, chaos
\* terminating its instances, and its removal
HealthNext ==
    \/ \E fail \in SUBSET {i \in members : istatus[i] \notin {TERMINATED, UNHEALTHY}} :
          \E recover \in SUBSET {i \in members \ fail : istatus[i] = DEGRADED} :
             perform_health_checks(fail, recover)
    \/ \E i \in Inst : auto_restart_begin(i)
    \/ auto_restart_end
    \/ \E i \in Inst : instance_terminate(i)
    \/ \E i \in Inst : remove_instance(i)
    \/ Service_shutdown

SpecHealth == InitHealth /\ [][HealthNext]_vars

\* ExperimentRunner.__init__ and one experiment to create
InitFair == Init /\ world = "runner"

\* The runner with its threads scheduled: an experiment's thread and a join
\* that can proceed do, and a monitor thread waiting for the runner's lock
\* gets it
SpecFair ==
    /\ InitFair
    /\ [][ThreadNext \/ RunnerNext]_vars
    /\ WF_lockpc(stop_join)
    /\ \A e \in ExpIds :
          /\ WF_<<pc, ticks>>(execute_begin(e) \/ execute_loop(e) \/ run_check(e) \/ run_completed(e)
                                \/ run_except(e) \/ run_finally(e))
          /\ SF_history(monitor_experiment(e))

\* ------------------------------------------------------------------ claims
Min2(a, b) == IF a < b THEN a ELSE b

NumRunning == Cardinality({e \in ExpIds : status[e] = RUNNING})

\* C1: a chaos_terminate_random_instance call made with healthy_count <= min_instances
\* returns None and changes no instance; one made with healthy_count > min_instances
\* terminates exactly one healthy instance and returns its id.  From n0 > m healthy
\* instances exactly n0-m calls succeed, m healthy instances remain, and every further
\* call returns None.
C1_TerminateRespectsMinimum ==
    [][chaos_terminate_random_instance =>
         LET h == HealthyCount
             m == min_instances
         IN /\ h <= m => /\ last_return' = 0
                         /\ istatus' = istatus
                         /\ members' = members
            /\ h > m => /\ last_return' \in get_healthy_instances
                        /\ istatus' = [istatus EXCEPT ![last_return'] = TERMINATED]
                        /\ HealthyCount' = h - 1
            /\ n0 > m => /\ succ' = Min2(calls', n0 - m)
                         /\ HealthyCount' = n0 - succ'
            /\ n0 <= m => succ' = 0 /\ HealthyCount' = n0
      ]_vars

\* C1: at least two calls succeeded, the service is down to its minimum and a
\* further call returned None
C1_Witness ==
    /\ world = "service"
    /\ n0 > min_instances
    /\ succ = n0 - min_instances
    /\ succ >= 2
    /\ calls > succ
    /\ last_return = 0
    /\ HealthyCount = min_instances

\* C2: every experiment that reached Running ends in one of Completed, Failed,
\* Cancelled, for every order of start() and stop(): once its thread has ended
\* and no stop() is in progress, its status is terminal.
C2_EveryRunEndsTerminal ==
    \A e \in ExpIds :
        (pc[e] = "done" /\ lockpc = "free") => status[e] \in Terminal

\* C3: for an experiment that reached Running, execute() is entered once and
\* cleanup() once, and cleanup() only after execute() has returned or raised,
\* whatever the terminal state and however often start() and stop() are called.
C3_ExecuteAndCleanupOnce ==
    \A e \in ExpIds :
        /\ exec_count[e] <= 1
        /\ cleanup_count[e] <= 1
        /\ pc[e] \in {"idle", "exec"} => exec_count[e] = 0 /\ cleanup_count[e] = 0
        /\ pc[e] \in {"loop", "check", "setc", "except", "finally"} =>
              exec_count[e] = 1 /\ cleanup_count[e] = 0
        /\ pc[e] = "done" => exec_count[e] = 1 /\ cleanup_count[e] = 1
        /\ status[e] # PENDING => pc[e] # "idle"

\* C3: a stopped experiment whose thread has ended, on which start was called again
C3_Witness ==
    \E e \in ExpIds :
        /\ pc[e] = "done"
        /\ should_stop[e]
        /\ status[e] = CANCELLED
        /\ exec_count[e] = 1
        /\ cleanup_count[e] = 1
        /\ api.op = "start_experiment"
        /\ api.id = e
        /\ api.result = "False"

\* C4: in ExperimentRunner the number of Running experiments never exceeds
\* max_concurrent_experiments; a start_experiment or force_experiment attempted
\* while that many are Running returns False and leaves the experiment as it was.
C4_ConcurrencyLimit ==
    [][world = "runner" =>
         /\ NumRunning' <= max_concurrent_experiments'
         /\ \A e \in ExpIds :
              ((start_experiment(e) \/ force_experiment(e))
                  /\ NumRunning >= max_concurrent_experiments) =>
                 /\ api'.result = "False"
                 /\ status'[e] = status[e]
                 /\ pc'[e] = pc[e]
      ]_vars

\* C4: a forced start of a registered Pending experiment refused at the limit
C4_Witness ==
    /\ world = "runner"
    /\ api.op = "force_experiment"
    /\ api.result = "False"
    /\ api.id \in active_experiments
    /\ status[api.id] = PENDING
    /\ ~dry_run_mode
    /\ NumRunning = max_concurrent_experiments

\* C5: start_experiment on a Chaos Kong experiment returns False, leaves it
\* Pending and terminates no instance as long as require_confirmation is on,
\* whatever safety_checks_enabled is.
C5_KongNeedsOverride ==
    [][\A e \in ExpIds :
          (start_experiment(e) /\ cfg[e].type = CHAOS_KONG /\ require_confirmation) =>
             /\ api'.result = "False"
             /\ status'[e] = status[e]
             /\ istatus' = istatus
      ]_vars

\* C6: in ExperimentRunner no two Chaos Gorilla / Chaos Kong experiments are
\* Running at the same time.
C6_OneDestructiveAtATime ==
    world = "runner" =>
       Cardinality({e \in ExpIds : cfg[e].type \in Destructive /\ status[e] = RUNNING}) <= 1

\* C7 (as written): with safety checks enabled, start_experiment returns False for
\* a targeted experiment, and create_and_run_experiment raises for a termination
\* experiment, whenever the target's healthy count is at or below min_instances.
C7_RefusedAtOrBelowMinimum ==
    [][/\ \A e \in ExpIds :
            (start_experiment(e) /\ safety_checks_enabled /\ e \in active_experiments
                /\ cfg[e].target \in target_services /\ HealthyCount <= min_instances) =>
               api'.result = "False"
       /\ \A d \in {DurTicks} :
            (create_and_run_experiment(TERMINATION, "svc", d) /\ safety_checks_enabled
                /\ HealthyCount <= min_instances) =>
               api'.result = "raise:safety"
      ]_vars

\* C7 (amended): with safety checks enabled, start_experiment returns False for a
\* targeted experiment whose target has fewer healthy instances than min_instances,
\* and at exactly min_instances this rule does not refuse it (a Pending one below the
\* concurrency limit is admitted); create_and_run_experiment raises for a termination
\* experiment whenever the target's healthy count is at or below min_instances, and
\* creates nothing.
C7_RunnerBelowManagerAtOrBelow ==
    [][/\ \A e \in ExpIds :
            (start_experiment(e) /\ safety_checks_enabled /\ e \in active_experiments
                /\ cfg[e].target \in target_services) =>
               /\ HealthyCount < min_instances =>
                     api'.result = "False" /\ status'[e] = status[e]
               /\ (HealthyCount = min_instances /\ status[e] = PENDING
                     /\ NumRunning < max_concurrent_experiments) =>
                     /\ api'.result = "True"
                     /\ ~dry_run_mode => status'[e] = RUNNING
       /\ \A d \in {DurTicks} :
            (create_and_run_experiment(TERMINATION, "svc", d) /\ safety_checks_enabled
                /\ HealthyCount <= min_instances) =>
               /\ api'.result = "raise:safety"
               /\ created' = created
               /\ status' = status
      ]_vars

\* C7: the runner has just refused a targeted experiment on a service below its minimum
C7_Witness ==
    /\ world = "runner"
    /\ safety_checks_enabled
    /\ api.op = "start_experiment"
    /\ api.result = "False"
    /\ api.id \in active_experiments
    /\ cfg[api.id].target \in target_services
    /\ HealthyCount < min_instances
    /\ status[api.id] = PENDING

\* C8: Completed, Failed and Cancelled are terminal, and status only ever moves
\* Pending -> Running -> terminal.
C8_TerminalIsFinal ==
    [][\A e \in ExpIds :
          /\ status[e] \in Terminal => status'[e] = status[e]
          /\ status'[e] # status[e] =>
                \/ status[e] = PENDING /\ status'[e] = RUNNING
                \/ status[e] = RUNNING /\ status'[e] \in Terminal
      ]_vars

C10_CompletedMeansRestored ==
    \A e \in ExpIds :
        (cfg[e].type = NETWORK_LATENCY /\ status[e] = COMPLETED) =>
           \A i \in DOMAIN pre_base[e] : i \in members => ibase[i] = pre_base[e][i]

\* C11: when two Latency experiments on the same service have both finished
\* cleanup, in whatever order, every instance has the base response time it had
\* before the first of them started.
C11_BothCleanedMeansRestored ==
    (/\ world = "runner"
     /\ \A e \in ExpIds :
           /\ cfg[e].type = NETWORK_LATENCY
           /\ cfg[e].target \in target_services
           /\ pc[e] = "done")
    => \A i \in 1..InitialInstances : ibase[i] = NewBase(i)

\* C12: check_metric keeps at most one unresolved alert per identity: an Alert
\* object is only ever constructed for an identity that has no unresolved one, and
\* a breach seen while the identity's alert is open leaves the alert open and adds
\* neither an Alert object nor a callback invocation.
C12_OneOpenAlertPerIdentity ==
    [][\A id \in AlertIds :
          /\ alert_objects'[id] # alert_objects[id]
                => /\ alerts[id] # "open"
                   /\ alert_objects'[id] = alert_objects[id] + 1
                   /\ alerts'[id] = "open"
          /\ (alerts[id] = "open" /\ trail'[id] = Append(trail[id], TRUE))
                => /\ alerts'[id] = "open"
                   /\ alert_objects'[id] = alert_objects[id]
                   /\ notified'[id] = notified[id]]_vars

\* a second breach was checked while the alert, with a callback registered, was open
C12_Witness ==
    \E id \in AlertIds :
        /\ Len(trail[id]) >= 2
        /\ trail[id][Len(trail[id])]
        /\ trail[id][Len(trail[id]) - 1]
        /\ alerts[id] = "open"
        /\ alert_objects[id] = 1
        /\ notified[id] = 1

\* C13: for one alert identity, after the checks breach / no breach / breach the
\* alert is open after the first, resolved and not among the active alerts after
\* the second, and after the third a new alert is open and among the active ones.
C13_BreachAfterResolveReopens ==
    \A id \in AlertIds :
        /\ trail[id] = <<TRUE>> => id \in get_active_alerts
        /\ trail[id] = <<TRUE, FALSE>> => alerts[id] = "resolved" /\ id \notin get_active_alerts
        /\ trail[id] = <<TRUE, FALSE, TRUE>>
              => /\ id \in get_active_alerts
                 /\ alert_objects[id] = 2

\* C14: terminate() on an instance that is already Terminated leaves it Terminated
\* and changes none of its other fields (start time, recovery time, failure
\* counter, base response time, error probability).
C14_TerminateIdempotent ==
    [][repeat_calls' # repeat_calls => si'.status = TERMINATED /\ si' = si]_vars

\* terminate() was called again on an instance terminated after a restart
C14_Witness ==
    /\ world = "instance"
    /\ repeat_calls >= 1
    /\ si.status = TERMINATED
    /\ si.recovery_time >= 1

\* C15: under every interleaving of restart, health checks, terminations and the
\* Resource Exhaustion experiment, an instance that is Terminated leaves that
\* state only to Recovering.
C15_TerminatedOnlyToRecovering ==
    [][(si.status = TERMINATED /\ si'.status # TERMINATED) => si'.status = RECOVERING]_vars

\* C16: handle_request called on a Terminated or Unhealthy instance raises and
\* updates no metrics, and no handle_request returns a success response from an
\* instance that is Terminated or Unhealthy when it returns.
C16_NoSuccessFromTerminated ==
    [][/\ (requests' # requests /\ si.status \in {TERMINATED, UNHEALTHY})
            => response' = "raise" /\ metric_updates' = metric_updates
       /\ (si_pc.request = "sleep" /\ si_pc'.request = "idle" /\ response' = "success")
            => si.status \notin {TERMINATED, UNHEALTHY}]_vars

\* the instances a step terminates
NewlyTerminated ==
    UNION {{<<s, i>> : i \in {j \in DOMAIN fleet[s] : /\ fleet[s][j] # TERMINATED
                                                     /\ fleet'[s][j] = TERMINATED}} :
              s \in MonkeyServices}

\* a scheduler tick of the enabled monkey inside the schedule window, with
\* termination_probability 1.0 and a registered, non-excluded service whose healthy
\* count is above the monkey's min_healthy_instances
TickInWindow ==
    /\ chaos_calls' # chaos_calls
    /\ monkey_op'.name = "tick"
    /\ monkey_op'.status # "closed"
    /\ is_enabled
    /\ termination_probability = 100
    /\ \E s \in monkey_targets \ excluded_services :
          Cardinality(FleetHealthy(s)) > min_healthy_instances

\* C17 (as stated): such a tick terminates exactly one instance and appends
\* exactly one entry to the termination history.
C17_TickTerminatesOne ==
    [][TickInWindow
         => /\ Cardinality(NewlyTerminated) = 1
            /\ Len(termination_history') = Len(termination_history) + 1]_vars

\* C17 (amended): such a tick picks one registered service whose healthy count is
\* above the monkey's min_healthy_instances; if that count is also above the
\* service's own min_instances the tick terminates exactly one instance, of that
\* service, and appends exactly one history entry, for that instance; otherwise
\* nothing is terminated, the history is unchanged and blocked_terminations grows
\* by one.
C17_TickTerminatesOneUnlessServiceRefuses ==
    [][TickInWindow
         => LET s == monkey_op'.service
            IN /\ s \in eligible_services
               /\ IF Cardinality(FleetHealthy(s)) > fleet_min[s]
                    THEN /\ Cardinality(NewlyTerminated) = 1
                         /\ \A x \in NewlyTerminated :
                               /\ x[1] = s
                               /\ termination_history' = Append(termination_history, x)
                         /\ blocked_terminations' = blocked_terminations
                    ELSE /\ fleet' = fleet
                         /\ termination_history' = termination_history
                         /\ blocked_terminations' = blocked_terminations + 1
                         /\ monkey_op'.status = "blocked"]_vars

\* a tick with probability 1.0 has just terminated an instance
C17_Witness ==
    /\ world = "monkey"
    /\ monkey_op.name = "tick"
    /\ monkey_op.status = "success"
    /\ termination_probability = 100
    /\ Len(termination_history) = 1
    /\ Cardinality(FleetHealthy(monkey_op.service)) = FleetSize(monkey_op.service) - 1

\* C18: force_chaos, with or without a service name, changes no instance of a
\* service whose healthy count is at or below the monkey's min_healthy_instances
\* or at or below the service's min_instances, and when it chose such a service it
\* returns status blocked or error.
C18_ForceKeepsSafetyRules ==
    [][\A s \in MonkeyServices :
          (/\ chaos_calls' # chaos_calls
           /\ monkey_op'.name = "force_chaos"
           /\ \/ Cardinality(FleetHealthy(s)) <= min_healthy_instances
              \/ Cardinality(FleetHealthy(s)) <= fleet_min[s])
          => /\ fleet'[s] = fleet[s]
             /\ monkey_op'.service = s => monkey_op'.status \in {"blocked", "error"}]_vars

\* C19: target selection never offers a service whose name is in
\* excluded_services, and no tick, force_chaos or simulate_outage chooses or
\* terminates an instance of such a service, whatever calls came before.
C19_ExcludedNeverTargeted ==
    [][/\ eligible_services \cap excluded_services = {}
       /\ chaos_calls' # chaos_calls
            => /\ monkey_op'.service \notin excluded_services
               /\ \A s \in excluded_services : fleet'[s] = fleet[s]]_vars

\* C20: a tick, force_chaos or simulate_outage that terminates an instance invokes
\* every registered termination callback exactly once with (service_name,
\* instance_id); one that terminates nothing invokes none.
C20_CallbacksOncePerTermination ==
    [][chaos_calls' # chaos_calls
         => IF monkey_op'.status = "success"
              THEN \A x \in NewlyTerminated : callback_log' = callback_log \o Notify(x[1], x[2])
              ELSE callback_log' = callback_log]_vars

\* C21: from a disable_temporarily call until its duration has elapsed the monkey
\* is disabled, whatever re-enable threads wake in between: a tick does nothing,
\* force_chaos and simulate_outage return status error, no instance is terminated.
C21_DisabledForTheDuration ==
    [][(world = "pause" /\ now < window_end)
         => /\ ~is_enabled
            /\ chaos_calls' # chaos_calls
                 => /\ fleet' = fleet
                    /\ monkey_op'.status = (IF monkey_op'.name = "tick" THEN "closed" ELSE "error")]_vars

\* C22: ChaosEngineeringSystem.stop, also when emergency_stop calls it, cancels
\* the experiments, then stops the Chaos Monkey, then stops monitoring, then shuts
\* the services down: once the monkey's stop is reached every experiment the
\* cancelling loops found active has its cancel flag set, monitoring is stopped
\* after the monkey, and the shutdown that terminates the instances runs only
\* after all three.
C22_ShutdownComesLast ==
    world = "system" =>
        /\ sys_pc \in {"monkey", "monitoring", "shutdown", "stopped"}
              => \A e \in stop_snapshot : should_stop[e]
        /\ sys_pc \in {"monitoring", "shutdown", "stopped"} => ~monkey_running
        /\ sys_pc \in {"shutdown", "stopped"} => ~monitoring_running
        /\ sys_pc # "stopped" =>
              \A i \in members : istatus[i] = TERMINATED =>
                  \E e \in created : i \in killed[e]

\* the system was stopped while two experiments were active
C22_Witness ==
    /\ world = "system"
    /\ sys_pc = "stopped"
    /\ Cardinality(stop_snapshot) = 2
    /\ \A i \in members : istatus[i] = TERMINATED

\* C23: with two threads in chaos termination of one service the number of
\* healthy instances never drops below min_instances.
C23_HealthyNeverBelowMinimum ==
    world = "race" => HealthyCount >= min_instances

\* C24: the state changes of one instance are serialized: a terminate() made
\* while restart() is in its startup delay is not overwritten when restart()
\* resumes, so the instance is still Terminated when restart() has returned.
C24_RestartKeepsLaterTerminate ==
    [][(/\ world = "instance"
        /\ si_pc.restart = "sleep"
        /\ si.status = TERMINATED
        /\ si_pc'.restart = "idle") => si'.status = TERMINATED]_vars

\* C25: whenever no Service.handle_request call is in progress, request_count is
\* the number of calls made and equals successful_requests + error_count, also
\* when calls ran concurrently.
C25_RequestsAllCounted ==
    (world = "traffic" /\ \A t \in 1..2 : svc_req[t].pc = "idle") =>
        /\ request_count = service_calls
        /\ request_count = successful_requests + error_count

\* C26: an experiment the runner started is recorded in the history at most once,
\* and when it is, it has left active_experiments, exactly one callback has been
\* notified, the one of the recorded status, and successful_experiments and
\* failed_experiments count the experiments recorded as completed and as failed;
\* and every started experiment that reaches a terminal status is eventually
\* recorded.
C26_TerminalIsRecordedOnce ==
    /\ [](/\ \A e \in ExpIds :
               /\ history[e] = None => fired[e] = <<>>
               /\ history[e] # None =>
                     /\ e \notin active_experiments
                     /\ history[e] \in Terminal
                     /\ fired[e] = << CASE history[e] = COMPLETED -> "on_complete"
                                        [] history[e] = FAILED -> "on_fail"
                                        [] OTHER -> "on_cancel" >>
           /\ successful_experiments = Cardinality({x \in ExpIds : history[x] = COMPLETED})
           /\ failed_experiments = Cardinality({x \in ExpIds : history[x] = FAILED}))
    /\ \A e \in ExpIds :
          (pc[e] # "idle" /\ status[e] \in Terminal)
              ~> (history[e] # None /\ e \notin active_experiments)

\* a stopped experiment was recorded as cancelled and its on_cancel callbacks notified
C26_Witness ==
    /\ world = "runner"
    /\ history["e1"] = CANCELLED
    /\ fired["e1"] = <<"on_cancel">>
    /\ "e1" \notin active_experiments

C29_ManagerCapHolds ==
    world = "callers" => Cardinality(active_experiments) <= max_concurrent_experiments

\* C30: after any sequence of Chaos Monkey actions total_terminations equals
\* successful_terminations + blocked_terminations.
C30_TotalIsSuccessfulPlusBlocked ==
    world \in {"monkey", "pause"} =>
        total_terminations = successful_terminations + blocked_terminations

\* C31: once every re_enable thread started by disable_temporarily has run, the
\* monkey, which was enabled before the first of the calls, is enabled again.
C31_EnabledAgainAfterTimers ==
    (world = "pause" /\ disable_calls > 0 /\ timers = {}) => is_enabled

\* C32: a registered service excluded for a duration is excluded and not eligible
\* for target selection while a re_include thread of it sleeps, and once no such
\* thread is left the service, if it has more healthy instances than
\* min_healthy_instances, is eligible again without a new register_service.
C32_ExcludedThenEligibleAgain ==
    world = "exclude" =>
      \A s \in MonkeyServices :
         IF \E t \in reincludes : t.service = s /\ t.fire_at > now
           THEN s \notin eligible_services
           ELSE (reincludes = {} /\ Cardinality(FleetHealthy(s)) > min_healthy_instances)
                   => s \in eligible_services

\* C33 (as stated): the breaker's state changes only Closed -> Open, when the
\* failure that makes FailureThreshold consecutive ones is recorded; Open ->
\* Half-Open, on a call made TimeoutTicks or more after the last failure;
\* Half-Open -> Closed, when the success that makes SuccessThreshold consecutive
\* ones is recorded; Half-Open -> Open, on any failure. Each of these happens
\* whenever its condition is met, and a call that finds the breaker Open raises
\* CircuitBreakerOpenException without invoking the function.
C33_OnlyAlongTheCycle ==
    [][world = "breaker" =>
         /\ (breaker_state = CLOSED /\ breaker_state' # CLOSED)
               => /\ breaker_state' = OPEN
                  /\ breaker_op'.outcome = "raised"
                  /\ fail_streak' = FailureThreshold
         /\ (breaker_state = OPEN /\ breaker_state' # OPEN)
               => /\ breaker_state' = HALF_OPEN
                  /\ breaker_calls' = breaker_calls + 1
                  /\ now - last_failure_time >= TimeoutTicks
         /\ (breaker_state = HALF_OPEN /\ breaker_state' # HALF_OPEN)
               => \/ /\ breaker_state' = CLOSED
                     /\ breaker_op'.outcome = "returned"
                     /\ succ_streak' = SuccessThreshold
                  \/ /\ breaker_state' = OPEN
                     /\ breaker_op'.outcome = "raised"
         /\ (breaker_pc = "func" /\ breaker_pc' = "idle")
               => /\ (breaker_state = CLOSED /\ breaker_op'.outcome = "raised"
                          /\ fail_streak' >= FailureThreshold) => breaker_state' = OPEN
                  /\ (breaker_state = HALF_OPEN /\ breaker_op'.outcome = "raised")
                        => breaker_state' = OPEN
                  /\ (breaker_state = HALF_OPEN /\ breaker_op'.outcome = "returned"
                          /\ succ_streak' >= SuccessThreshold) => breaker_state' = CLOSED
         /\ (breaker_calls' = breaker_calls + 1 /\ breaker_state' = OPEN)
               => /\ breaker_op'.outcome = "CircuitBreakerOpenException"
                  /\ ~breaker_op'.invoked
                  /\ breaker_pc' = "idle"
      ]_vars

\* C33 (amended): the same for every step of call(); reset() puts the breaker
\* back to Closed from any state.
C33_OnlyAlongTheCycleOrReset ==
    [][world = "breaker" =>
         IF breaker_resets' # breaker_resets
           THEN breaker_state' = CLOSED
           ELSE
         /\ (breaker_state = CLOSED /\ breaker_state' # CLOSED)
               => /\ breaker_state' = OPEN
                  /\ breaker_op'.outcome = "raised"
                  /\ fail_streak' = FailureThreshold
         /\ (breaker_state = OPEN /\ breaker_state' # OPEN)
               => /\ breaker_state' = HALF_OPEN
                  /\ breaker_calls' = breaker_calls + 1
                  /\ now - last_failure_time >= TimeoutTicks
         /\ (breaker_state = HALF_OPEN /\ breaker_state' # HALF_OPEN)
               => \/ /\ breaker_state' = CLOSED
                     /\ breaker_op'.outcome = "returned"
                     /\ succ_streak' = SuccessThreshold
                  \/ /\ breaker_state' = OPEN
                     /\ breaker_op'.outcome = "raised"
         /\ (breaker_pc = "func" /\ breaker_pc' = "idle")
               => /\ (breaker_state = CLOSED /\ breaker_op'.outcome = "raised"
                          /\ fail_streak' >= FailureThreshold) => breaker_state' = OPEN
                  /\ (breaker_state = HALF_OPEN /\ breaker_op'.outcome = "raised")
                        => breaker_state' = OPEN
                  /\ (breaker_state = HALF_OPEN /\ breaker_op'.outcome = "returned"
                          /\ succ_streak' >= SuccessThreshold) => breaker_state' = CLOSED
         /\ (breaker_calls' = breaker_calls + 1 /\ breaker_state' = OPEN)
               => /\ breaker_op'.outcome = "CircuitBreakerOpenException"
                  /\ ~breaker_op'.invoked
                  /\ breaker_pc' = "idle"
      ]_vars

\* the breaker opened, half-opened after the timeout and has closed on the
\* success that completed the streak, with no reset
C33_Witness ==
    /\ world = "breaker"
    /\ breaker_resets = 0
    /\ breaker_state = CLOSED
    /\ last_failure_time # NoTime
    /\ breaker_op.outcome = "returned"
    /\ succ_streak = SuccessThreshold
    /\ blocked_requests > 0

\* C34: with any number of concurrent callers of Bulkhead.execute, at most
\* MaxConcurrentCalls of them are executing the wrapped function; a call that
\* finds no permit left is rejected with BulkheadFullException at once and never
\* runs the function, and a call that finds one is admitted; current_calls counts
\* the admitted calls between their two lock sections, and with no call in flight
\* current_calls is 0 and every permit is back, whether the calls returned or
\* raised.
C34_BulkheadBounds ==
    /\ [](world = "bulkhead" =>
            /\ Cardinality({t \in BulkheadCallers : bulkhead_pc[t] = "func"}) <= MaxConcurrentCalls
            /\ current_calls = Cardinality({t \in BulkheadCallers :
                                               bulkhead_pc[t] \in {"func", "finally"}})
            /\ (\A t \in BulkheadCallers : bulkhead_pc[t] = "idle")
                  => /\ current_calls = 0
                     /\ semaphore = MaxConcurrentCalls
                     /\ total_calls = rejected_calls + successful_calls + failed_calls)
    /\ [][(world = "bulkhead" /\ total_calls' # total_calls) =>
            LET t == bulkhead_op'.caller IN
            IF MaxConcurrentCalls =
                 Cardinality({u \in BulkheadCallers : bulkhead_pc[u] # "idle"})
              THEN /\ bulkhead_op'.outcome = "BulkheadFullException"
                   /\ bulkhead_pc' = bulkhead_pc
                   /\ rejected_calls' = rejected_calls + 1
              ELSE /\ bulkhead_op'.outcome = "acquired"
                   /\ bulkhead_pc'[t] = "acquired"
                   /\ rejected_calls' = rejected_calls]_vars

\* a caller was rejected while the permits were all taken, one call raised and
\* one returned, and no call is in flight any more
C34_Witness ==
    /\ world = "bulkhead"
    /\ rejected_calls > 0
    /\ failed_calls > 0
    /\ successful_calls > 0
    /\ \A t \in BulkheadCallers : bulkhead_pc[t] = "idle"
    /\ current_calls = 0

\* C35: one auto-scaling decision changes the instance map by at most one
\* instance, adds none when the map already holds max_instances instances,
\* healthy or not, and removes none when it holds min_instances or fewer.
C35_ScalingWithinLimits ==
    [][(world = "scale" /\ scale_calls' # scale_calls) =>
         /\ Cardinality((members' \ members) \cup (members \ members')) <= 1
         /\ Cardinality(members) >= max_instances => members' \ members = {}
         /\ Cardinality(members) <= min_instances => members \ members' = {}]_vars

\* C36: from the start of a Doctor Monkey experiment to the end of its cleanup
\* the fleet is as it was when the experiment started: the same instances, each
\* with the same status and the same base response time.
C36_DoctorReadsOnly ==
    (world = "doctor" /\ doctor_pc # "idle") => FleetNow = doctor_before

\* C37: once Service.shutdown() has returned, every instance of the service
\* is Terminated and stays so: the health-check loop and the auto-restart
\* tasks bring none of them back
C37_ShutdownIsFinal ==
    (world = "health" /\ shut_down) => \A i \in members : istatus[i] = TERMINATED

\* C38: the bypass of force_experiment is confined to its own experiment: an
\* experiment that start_experiment starts, and that no force_experiment call
\* under way names, passes the safety checks of the configured mode, and when no force_experiment call is under way the two
\* flags are as configured (both on)
C38_BypassConfined ==
    /\ [](world = "runner" /\ (\A c \in ForceCallers : force_pc[c] = "idle")
             => safety_checks_enabled /\ require_confirmation)
    /\ [][\A e \in ExpIds :
            (world = "runner" /\ status[e] = PENDING /\ status'[e] = RUNNING
               /\ api'.op = "start_experiment"
               /\ \A c \in ForceCallers : force_pc[c] # "idle" => force_id[c] # e)
            => Runner_safety_check(e, TRUE)]_vars

\* C39: after any sequence of start() and stop() calls at most one loop makes
\* iterations: of the loops there are, only one has made an iteration since
\* the last start()
C39_OneLoopTicks ==
    world = "loop" => Cardinality(ticking) <= 1

\* C40: each termination of an instance leads to at most one restart of it:
\* the auto-restart tasks have not restarted an instance more often than it
\* was terminated, a task restarts an instance only if it finds it Terminated
\* in the service, and a task whose instance was evicted changes nothing
C40_OneRestartPerTermination ==
    /\ [](world = "health" => \A i \in Inst : restart_count[i] <= term_count[i])
    /\ [][world = "health" => \A i \in Inst :
            /\ restart_count'[i] # restart_count[i] =>
                  /\ i \in members
                  /\ istatus[i] = TERMINATED
                  /\ istatus'[i] = RECOVERING
            /\ (restart_tasks'[i] < restart_tasks[i] /\ i \notin members) =>
                  /\ FleetNow' = FleetNow
                  /\ restart_count' = restart_count]_vars

\* two tasks were scheduled for one termination: one has restarted the
\* instance, another has found it running and done nothing
C40_Witness ==
    /\ world = "health"
    /\ \E i \in members :
          /\ term_count[i] = 1
          /\ restart_count[i] = 1
          /\ i \in noop_tasks
          /\ istatus[i] = HEALTHY

====
